---- MODULE Spec2Model ----
(***************************************************************************)
(* Model of the document relevance scorer and the budgeted diverse         *)
(* selector of the dreamfinders skill (clean_find_matching.py, duplicated  *)
(* in document_rag_explorer.py).                                           *)
(*                                                                         *)
(* Strings are TLA+ strings handled character by character (Len, SubSeq,   *)
(* \o), so substring tests, counts, lowercasing and splitting are computed *)
(* the way Python computes them.  Scores are exact integers: the additive  *)
(* score is counted in hundredths (0.15 = 15) and the value returned by    *)
(* the scorer, min(score / 3.0, 1.0), is counted in units of 1/300, so     *)
(* that 1.0 = 300 and match_threshold 0.15 = 45.  Every weight of the      *)
(* code is a multiple of 0.05, so nothing is rounded.                      *)
(***************************************************************************)
EXTENDS Integers, Sequences, FiniteSets, TLC

(***************************************************************************)
(* Python string primitives                                                *)
(***************************************************************************)
Min(a, b) == IF a <= b THEN a ELSE b

UpperAlpha == "ABCDEFGHIJKLMNOPQRSTUVWXYZ"
LowerAlpha == "abcdefghijklmnopqrstuvwxyz"

\* str.lower() of one character
LowerChar(c) ==
    IF \E i \in 1..Len(UpperAlpha) : SubSeq(UpperAlpha, i, i) = c
    THEN LET i == CHOOSE j \in 1..Len(UpperAlpha) : SubSeq(UpperAlpha, j, j) = c
         IN  SubSeq(LowerAlpha, i, i)
    ELSE c

RECURSIVE LowerFrom(_, _)
LowerFrom(s, i) ==
    IF i > Len(s) THEN ""
    ELSE LowerChar(SubSeq(s, i, i)) \o LowerFrom(s, i + 1)

\* str.lower()
lower(s) == LowerFrom(s, 1)

\* Python's  sub in s
str_in(sub, s) ==
    \E i \in 0..(Len(s) - Len(sub)) : SubSeq(s, i + 1, i + Len(sub)) = sub

\* Python's  s.count(sub): non-overlapping occurrences, scanned left to right
RECURSIVE CountFrom(_, _, _)
CountFrom(sub, s, i) ==
    IF i + Len(sub) - 1 > Len(s) THEN 0
    ELSE IF SubSeq(s, i, i + Len(sub) - 1) = sub
         THEN 1 + CountFrom(sub, s, i + Len(sub))
         ELSE CountFrom(sub, s, i + 1)

str_count(sub, s) == IF sub = "" THEN Len(s) + 1 ELSE CountFrom(sub, s, 1)

\* Python's  s.split(): maximal runs of non-blank characters
RECURSIVE SplitFrom(_, _, _)
SplitFrom(s, i, cur) ==
    IF i > Len(s) THEN (IF cur = "" THEN << >> ELSE << cur >>)
    ELSE IF SubSeq(s, i, i) = " "
         THEN (IF cur = "" THEN << >> ELSE << cur >>) \o SplitFrom(s, i + 1, "")
         ELSE SplitFrom(s, i + 1, cur \o SubSeq(s, i, i))

str_split(s) == SplitFrom(s, 1, "")

RECURSIVE SumSeq(_)
SumSeq(q) == IF q = << >> THEN 0 ELSE Head(q) + SumSeq(Tail(q))

(***************************************************************************)
(* calculate_enhanced_relevance                                            *)
(***************************************************************************)
\* 1.0 in the unit of the returned score (score / 3.0 with score in hundredths)
ScoreOne == 300

\* critical_keywords: keyword -> weight in hundredths
critical_keywords ==
    << <<"apr", 50>>, <<"rate", 40>>, <<"buydown", 60>>, <<"mortgage", 40>>,
       <<"financing", 50>>, <<"payment", 30>>, <<"monthly", 30>>,
       <<"2.99%", 80>>, <<"5.572%", 80>>,
       <<"special", 50>>, <<"event", 40>>, <<"promotion", 50>>, <<"limited", 40>>,
       <<"offer", 40>>, <<"sale", 40>>, <<"national", 30>>, <<"incentive", 50>>,
       <<"price", 40>>, <<"reduction", 50>>, <<"reduced", 50>>, <<"discount", 50>>,
       <<"$", 30>>, <<"cost", 30>>,
       <<"available", 30>>, <<"inventory", 40>>, <<"move-in", 40>>, <<"ready", 30>>,
       <<"lennar", 30>>, <<"meritage", 30>> >>

IsCritical(word) == \E i \in 1..Len(critical_keywords) : critical_keywords[i][1] = word

WeightOf(word) ==
    critical_keywords[CHOOSE i \in 1..Len(critical_keywords) : critical_keywords[i][1] = word][2]

high_value_patterns ==
    << <<"national sales event", 80>>, <<"special financing", 70>>,
       <<"2.99% apr", 90>>, <<"limited time", 50>>,
       <<"move-in ready", 50>>, <<"price reduction", 60>> >>

\* "Check critical keywords": weight * min(count, 3) for every keyword present
KeywordScore(text_lower) ==
    SumSeq([i \in 1..Len(critical_keywords) |->
              IF str_in(critical_keywords[i][1], text_lower)
              THEN Min(str_count(critical_keywords[i][1], text_lower), 3)
                     * critical_keywords[i][2]
              ELSE 0])

\* "Word matching": the contribution of the words of one term
WordScore(words, text_lower) ==
    SumSeq([i \in 1..Len(words) |->
              IF Len(words[i]) < 3 THEN 0
              ELSE IF str_in(words[i], text_lower)
                   THEN (IF IsCritical(words[i]) THEN WeightOf(words[i]) ELSE 15)
                   ELSE 0])

MatchedWords(words, text_lower) ==
    Cardinality({i \in 1..Len(words) : Len(words[i]) >= 3 /\ str_in(words[i], text_lower)})

\* The body of the loop "for term in search_terms" for one term
TermScore(term, text_lower) ==
    IF term = "" THEN 0
    ELSE LET term_lower == lower(term)
         IN  IF Len(term_lower) > 3 /\ str_in(term_lower, text_lower)
             THEN Min(str_count(term_lower, text_lower) * 60, 150)
             ELSE LET words   == str_split(term_lower)
                      matched == MatchedWords(words, text_lower)
                  IN  WordScore(words, text_lower)
                      + (IF Len(words) > 1 /\ matched * 10 >= 7 * Len(words)
                         THEN 30 ELSE 0)

PatternScore(text_lower) ==
    SumSeq([i \in 1..Len(high_value_patterns) |->
              IF str_in(high_value_patterns[i][1], text_lower)
              THEN high_value_patterns[i][2] ELSE 0])

FileNameBonus(search_terms, file_name) ==
    LET file_lower == lower(file_name)
    IN  IF \E i \in 1..Len(search_terms) :
              search_terms[i] /= "" /\ str_in(lower(search_terms[i]), file_lower)
        THEN 20 ELSE 0

\* The additive score before normalisation, in hundredths
RawScore(text, search_terms, file_name) ==
    LET text_lower == lower(text)
    IN  KeywordScore(text_lower)
        + SumSeq([i \in 1..Len(search_terms) |-> TermScore(search_terms[i], text_lower)])
        + PatternScore(text_lower)
        + FileNameBonus(search_terms, file_name)

\* calculate_enhanced_relevance without the clamp at 1.0
calculate_unclamped(text, search_terms, file_name) ==
    RawScore(text, search_terms, file_name)

\* return min(score / 3.0, 1.0), in units of 1/300
calculate_enhanced_relevance(text, search_terms, file_name) ==
    Min(RawScore(text, search_terms, file_name), ScoreOne)

(***************************************************************************)
(* find_matching_documents: question analysis and term expansion           *)
(***************************************************************************)
\* Python's None where a string is expected: a value that is no text of any
\* chunk, no question and no topic
None == "<None>"

\* "if user_question", "if topic", "if term": None and "" are false
truthy(v) == v /= "" /\ v /= None

comparison_words == << "competitors", "competition", "both", "compare", "versus", "vs" >>

\* user_question.lower() if user_question else ""
question_lower(question) == IF truthy(question) THEN lower(question) ELSE ""

mentions_lennar(question) == str_in("lennar", question_lower(question))
mentions_meritage(question) == str_in("meritage", question_lower(question))
mentions_both(question) ==
    mentions_lennar(question) /\ mentions_meritage(question)
\* wants_comparison that also takes the mention of one competitor for a request
\* to compare
wants_comparison_any_mention(question) ==
    \/ \E i \in 1..Len(comparison_words) :
          str_in(comparison_words[i], question_lower(question))
    \/ mentions_lennar(question)
    \/ mentions_meritage(question)

wants_comparison(question) ==
    \E i \in 1..Len(comparison_words) :
        str_in(comparison_words[i], question_lower(question))

keyword_expansions ==
    << <<"financing",
         << "financing", "finance", "mortgage", "loan", "apr", "rate", "payment",
            "buydown", "interest", "monthly payment", "qualification", "credit",
            "2.99%", "5.572%" >> >>,
       <<"special",
         << "special", "promotion", "offer", "event", "sale", "limited time",
            "exclusive", "discount", "incentive", "deal", "savings",
            "national sales event" >> >>,
       <<"price",
         << "price", "pricing", "cost", "$", "reduction", "reduced", "discount",
            "drop", "decrease", "lower", "affordable", "starting from" >> >>,
       <<"inventory",
         << "inventory", "available", "availability", "move-in ready", "quick move",
            "homes available", "in stock", "ready now" >> >> >>

RECURSIVE ExpansionsFrom(_, _)
ExpansionsFrom(ql, i) ==
    IF i > Len(keyword_expansions) THEN << >>
    ELSE (IF str_in(keyword_expansions[i][1], ql) THEN keyword_expansions[i][2] ELSE << >>)
         \o ExpansionsFrom(ql, i + 1)

\* [topic for topic in topic_list if topic]
NonEmpty(q) == SelectSeq(q, truthy)

search_terms(question, topic_list) ==
    (IF truthy(question) THEN << question >> ELSE << >>)
    \o ExpansionsFrom(question_lower(question), 1)
    \o (IF mentions_lennar(question) \/ wants_comparison(question)
        THEN << "lennar" >> ELSE << >>)
    \o (IF mentions_meritage(question) \/ wants_comparison(question)
        THEN << "meritage" >> ELSE << >>)
    \o NonEmpty(topic_list)

\* "Remove duplicates": first spelling of every term, compared in lower case
RECURSIVE Dedup(_, _, _)
Dedup(terms, i, acc) ==
    IF i > Len(terms) THEN acc
    ELSE IF truthy(terms[i])
            /\ \A k \in 1..Len(acc) : lower(acc[k]) /= lower(terms[i])
         THEN Dedup(terms, i + 1, Append(acc, terms[i]))
         ELSE Dedup(terms, i + 1, acc)

\* Dedup that compares the terms as they are spelled
RECURSIVE DedupSpelled(_, _, _)
DedupSpelled(terms, i, acc) ==
    IF i > Len(terms) THEN acc
    ELSE IF truthy(terms[i]) /\ \A k \in 1..Len(acc) : acc[k] /= terms[i]
         THEN DedupSpelled(terms, i + 1, Append(acc, terms[i]))
         ELSE DedupSpelled(terms, i + 1, acc)

\* unique_terms with a case-sensitive "seen" set
unique_terms_case_sensitive(question, topic_list) ==
    DedupSpelled(search_terms(question, topic_list), 1, << >>)

unique_terms(question, topic_list) == Dedup(search_terms(question, topic_list), 1, << >>)

(***************************************************************************)
(* Bounds and input sets                                                   *)
(***************************************************************************)
MaxChunks == 4

\* The rows load_document_sources can deliver
ChunkPool ==
    { [file_name |-> "Lennar_Brief.pdf",   text |-> "Lennar apr sale",  chunk_index |-> 1],
      [file_name |-> "Meritage_Brief.pdf", text |-> "Meritage buydown $", chunk_index |-> 1],
      [file_name |-> "Other.pdf", text |-> "2.99% apr special financing", chunk_index |-> 1],
      [file_name |-> "Other.pdf", text |-> "generic report",            chunk_index |-> 2] }

\* (question, topic_list) pairs
Queries ==
    { [q |-> "",                  t |-> << >>],
      [q |-> "Lennar rates",      t |-> << "APR", "", "apr" >>],
      [q |-> "compare apr",       t |-> << >>],
      [q |-> "Lennar or Meritage price", t |-> << >>] }

MaxSourcesValues == {0, 1, 2, 3, 5}
\* 0.15 (the default), 0.8 and 1.0
ThresholdValues == {45, 240, 300}
MaxCharactersValues == {30, 3000}

\* A chunk of pack.json whose "Text" is null: chunk.get("Text", "") is None
NoneRow == [file_name |-> "Lennar_Brief.pdf", text |-> None, chunk_index |-> 2]

\* Rows, queries and budgets at the boundary of the contract: a None text, a
\* None question, negative budgets and budgets that are not numbers (named in
\* bad; the number standing in their place is never read)
BoundaryPool ==
    { c \in ChunkPool : c.file_name /= "Other.pdf" } \cup { NoneRow }

BoundaryQueries ==
    { [q |-> None,          t |-> << "APR", "", "apr" >>],
      [q |-> "",            t |-> << >>],
      [q |-> "compare apr", t |-> << >>] }

BoundaryBudgets ==
    { [ms |-> 5,  thr |-> 45,  mc |-> 3000, bad |-> {}],
      [ms |-> -1, thr |-> 45,  mc |-> 3000, bad |-> {}],
      [ms |-> 0,  thr |-> 45,  mc |-> 3000, bad |-> {}],
      [ms |-> 5,  thr |-> -45, mc |-> 3000, bad |-> {}],
      [ms |-> 5,  thr |-> 45,  mc |-> -1,   bad |-> {}],
      [ms |-> 5,  thr |-> 45,  mc |-> 50,   bad |-> {}],
      [ms |-> 0,  thr |-> 45,  mc |-> 3000, bad |-> {"max_sources"}],
      [ms |-> 5,  thr |-> 0,   mc |-> 3000, bad |-> {"match_threshold"}],
      [ms |-> 5,  thr |-> 45,  mc |-> 0,    bad |-> {"max_characters"}] }

\* The default of the skill parameter base_url
DefaultBaseUrl == "https://dreamfinders.poc.answerrocket.com/apps/system/knowledge-base"

\* The default and the knowledge base of another deployment
BoundaryBaseUrls == { DefaultBaseUrl, "https://kb.example.com/docs" }

AllQueries == Queries \cup BoundaryQueries

\* The pure functions tabulated once over the input sets, as sets of rows: the
\* term list and the intent of every query, the score of every chunk under
\* every query
QueryTable ==
    { [qt        |-> qt,
       terms     |-> unique_terms(qt.q, qt.t),
       wants     |-> wants_comparison(qt.q),
       comparing |-> wants_comparison(qt.q) \/ mentions_both(qt.q)] : qt \in AllQueries }

terms_of(qt) == (CHOOSE r \in QueryTable : r.qt = qt).terms

wants_of(qt) == (CHOOSE r \in QueryTable : r.qt = qt).wants

\* "wants_comparison or mentions_both" of the second pass
comparing_of(qt) == (CHOOSE r \in QueryTable : r.qt = qt).comparing

RelevanceTable ==
    { [source |-> c, qt |-> qt,
       score  |-> calculate_enhanced_relevance(c.text, terms_of(qt), c.file_name)] :
      c \in ChunkPool, qt \in AllQueries }

(***************************************************************************)
(* find_matching_documents: scoring, threshold filter, sort                *)
(***************************************************************************)
is_lennar(file_name) == str_in("Lennar", file_name)
is_meritage(file_name) == str_in("Meritage", file_name)

doc_id(file_name) ==
    IF is_lennar(file_name) THEN "abb40c5f-f259-48bf-85c3-d2ed1ea956b8"
    ELSE IF is_meritage(file_name) THEN "7f0292db-d935-4c90-b65b-897bb98167f9"
    ELSE "unknown"

url_of(file_name, chunk_index) ==
    "https://dreamfinders.poc.answerrocket.com/apps/system/knowledge-base/"
    \o doc_id(file_name) \o "#page=" \o ToString(chunk_index)

\* score = calculate_enhanced_relevance(source['text'], unique_terms, source['file_name'])
\* for the unique_terms of query qt
score_of(source, qt) ==
    (CHOOSE r \in RelevanceTable : r.source = source /\ r.qt = qt).score

\* source_copy: the corpus record plus match_score and url
source_copy(source, qt) ==
    [file_name   |-> source.file_name,
     text        |-> source.text,
     chunk_index |-> source.chunk_index,
     match_score |-> score_of(source, qt),
     url         |-> url_of(source.file_name, source.chunk_index)]

\* passes_threshold with a strict comparison
passes_threshold_strict(score, threshold) == score > threshold

\* "if score >= float(threshold)"
passes_threshold(score, threshold) == score >= threshold

\* "Score all documents": the scored copy of every corpus chunk, by position
RECURSIVE score_all(_, _, _)
score_all(sources, qt, i) ==
    IF i > Len(sources) THEN << >>
    ELSE << source_copy(sources[i], qt) >> \o score_all(sources, qt, i + 1)

\* corpus_after_scoring for a loop that writes match_score and url to the row
\* itself
corpus_scored_in_place(sources, qt, threshold) ==
    [p \in 1..Len(sources) |->
        IF passes_threshold(score_of(sources[p], qt), threshold)
        THEN source_copy(sources[p], qt) ELSE sources[p]]

\* loaded_sources after the scoring loop: "source_copy = source.copy()", and
\* match_score and url are written to source_copy, so that the rows of the
\* corpus stay as they were loaded
corpus_after_scoring(sources, qt, threshold) == sources

\* ScoredPositions of a loop that appends every copy to scored_sources
AllPositions(rec, threshold) == [i \in 1..Len(rec) |-> i]

\* The corpus positions whose chunk passes the threshold, in corpus order
ScoredPositions(rec, threshold) ==
    SelectSeq([i \in 1..Len(rec) |-> i],
              LAMBDA p : passes_threshold(rec[p].match_score, threshold))

\* keeps_place with ties resolved the other way round (an unstable sort)
keeps_place_unstable(placed_key, new_key) == placed_key > new_key

\* list.sort(key=match_score, reverse=True) is stable: an element that is
\* already placed stays in front of a later one unless its score is smaller
keeps_place(placed_key, new_key) == placed_key >= new_key

RECURSIVE InsertDesc(_, _, _)
InsertDesc(x, sorted, key) ==
    IF sorted = << >> THEN << x >>
    ELSE IF keeps_place(key[Head(sorted)], key[x])
         THEN << Head(sorted) >> \o InsertDesc(x, Tail(sorted), key)
         ELSE << x >> \o sorted

RECURSIVE SortDescFrom(_, _, _, _)
SortDescFrom(q, i, acc, key) ==
    IF i > Len(q) THEN acc
    ELSE SortDescFrom(q, i + 1, InsertDesc(q[i], acc, key), key)

sort_by_score(q, key) == SortDescFrom(q, 1, << >>, key)

(***************************************************************************)
(* find_matching_documents: selection.  The lists hold corpus positions;   *)
(* rec[p] is the scored copy of the chunk at position p, and membership    *)
(* ("source not in matches") compares the copies, as dict equality does.   *)
(***************************************************************************)
in_matches(p, m, rec) == \E k \in 1..Len(m) : rec[m[k]] = rec[p]

\* at_capacity stopping one element early
at_capacity_early(n, n_max) == n + 1 >= n_max

\* "if len(matches) >= int(max_sources): break"
at_capacity(n, n_max) == n >= n_max

\* over_budget without the minimum of two documents
over_budget_no_minimum(n, chars_so_far, text_len, c_max) ==
    chars_so_far + text_len > c_max

\* over_budget that tests the length selected so far, without the candidate
over_budget_before_candidate(n, chars_so_far, text_len, c_max) ==
    n >= 2 /\ chars_so_far > c_max

\* "Check character limit (but ensure minimum docs)"
over_budget(n, chars_so_far, text_len, c_max) ==
    n >= 2 /\ chars_so_far + text_len > c_max

\* "First pass: get best matches"
RECURSIVE first_pass(_, _, _, _, _, _)
first_pass(sorted, i, st, rec, n_max, c_max) ==
    IF i > Len(sorted) THEN st
    ELSE IF at_capacity(Len(st.matches), n_max) THEN st
    ELSE IF over_budget(Len(st.matches), st.chars_so_far,
                        Len(rec[sorted[i]].text), c_max) THEN st
    ELSE first_pass(sorted, i + 1,
             [matches      |-> Append(st.matches, sorted[i]),
              chars_so_far |-> st.chars_so_far + Len(rec[sorted[i]].text),
              has_lennar   |-> st.has_lennar \/ is_lennar(rec[sorted[i]].file_name),
              has_meritage |-> st.has_meritage
                               \/ (~is_lennar(rec[sorted[i]].file_name)
                                   /\ is_meritage(rec[sorted[i]].file_name))],
             rec, n_max, c_max)

\* backfill searching the whole corpus instead of the candidates
backfill_from_corpus(sorted, m, rec, company) ==
    LET cand == {p \in 1..Len(rec) :
                    str_in(company, rec[p].file_name) /\ ~in_matches(p, m, rec)}
    IN  IF cand = {} THEN m
        ELSE Append(m, CHOOSE p \in cand : \A r \in cand : p <= r)

\* The first candidate of a company that is not yet among the matches, appended
backfill(sorted, m, rec, company) ==
    LET cand == {i \in 1..Len(sorted) :
                    str_in(company, rec[sorted[i]].file_name)
                    /\ ~in_matches(sorted[i], m, rec)}
    IN  IF cand = {} THEN m
        ELSE Append(m, sorted[CHOOSE i \in cand : \A j \in cand : i <= j])

\* second_pass without "len(matches) < int(max_sources)" in its guard
second_pass_unguarded(sorted, st, rec, comparing, n_max) ==
    IF comparing
    THEN LET m1 == IF ~st.has_lennar
                   THEN backfill(sorted, st.matches, rec, "Lennar") ELSE st.matches
         IN  IF ~st.has_meritage THEN backfill(sorted, m1, rec, "Meritage") ELSE m1
    ELSE st.matches

\* second_pass that backfills only a selection of fewer than two matches
second_pass_below_minimum(sorted, st, rec, comparing, n_max) ==
    IF comparing /\ Len(st.matches) < n_max /\ Len(st.matches) < 2
    THEN LET m1 == IF ~st.has_lennar
                   THEN backfill(sorted, st.matches, rec, "Lennar") ELSE st.matches
         IN  IF ~st.has_meritage THEN backfill(sorted, m1, rec, "Meritage") ELSE m1
    ELSE st.matches

\* "Second pass: ensure both companies if comparing"
second_pass(sorted, st, rec, comparing, n_max) ==
    IF comparing /\ Len(st.matches) < n_max
    THEN LET m1 == IF ~st.has_lennar
                   THEN backfill(sorted, st.matches, rec, "Lennar") ELSE st.matches
         IN  IF ~st.has_meritage THEN backfill(sorted, m1, rec, "Meritage") ELSE m1
    ELSE st.matches

\* The whole function: the scored copies, the positions that passed the
\* threshold after the sort, the number of matches of the first pass, and the
\* positions returned
find_matching_documents(qt, sources, n_max, threshold, c_max) ==
    LET rec    == score_all(sources, qt, 1)
        key    == [p \in 1..Len(sources) |-> rec[p].match_score]
        sorted == sort_by_score(ScoredPositions(rec, threshold), key)
        st     == first_pass(sorted, 1,
                             [matches |-> << >>, chars_so_far |-> 0,
                              has_lennar |-> FALSE, has_meritage |-> FALSE],
                             rec, n_max, c_max)
        final  == second_pass(sorted, st, rec, comparing_of(qt), n_max)
    IN  [rec     |-> rec,
         scored  |-> sorted,
         pass1   |-> Len(st.matches),
         matched |-> final]

\* The list of copies standing at the corpus positions ps, from the i-th on.
RECURSIVE records_at(_, _, _)
records_at(ps, rec, i) ==
    IF i > Len(ps) THEN << >> ELSE << rec[ps[i]] >> \o records_at(ps, rec, i + 1)

(***************************************************************************)
(* find_matching_documents: the statements that raise.  Every exception of *)
(* the try block is logged and raised again ("raise e").                   *)
(***************************************************************************)
\* "text_lower = text.lower()" raises AttributeError for None
lower_raises(text) == text = None

\* int(x) and float(x) raise for an argument that is not a number
conversion_raises(name, bad) == name \in bad

\* "Score all documents": the number of chunks scored when the loop ends or a
\* statement raises, and the line of the statement that raised (0: none)
RECURSIVE scoring_stops_at(_, _, _)
scoring_stops_at(sources, bad, i) ==
    IF i > Len(sources) THEN [scored |-> Len(sources), line |-> 0]
    ELSE IF lower_raises(sources[i].text) THEN [scored |-> i - 1, line |-> 144]
    ELSE IF conversion_raises("match_threshold", bad) THEN [scored |-> i, line |-> 67]
    ELSE scoring_stops_at(sources, bad, i + 1)

\* selection_raises_at with a second pass that rejects a negative max_sources
selection_raises_on_negative(n_scored, comparing, n_max, bad) ==
    IF n_scored >= 1 /\ conversion_raises("max_sources", bad) THEN 95
    ELSE IF n_scored >= 3 /\ n_max >= 3 /\ conversion_raises("max_characters", bad)
         THEN 99
    ELSE IF conversion_raises("max_sources", bad) \/ n_max < 0 THEN 112
    ELSE 0

\* The two passes over n_scored candidates: the line of the first statement
\* that raises (0: none).  int(max_sources) is evaluated at the head of every
\* iteration of the first pass and in the guard of the second pass after
\* "wants_comparison or mentions_both"; int(max_characters) is evaluated in an
\* iteration that finds two matches already selected
selection_raises_at(n_scored, comparing, n_max, bad) ==
    IF n_scored >= 1 /\ conversion_raises("max_sources", bad) THEN 95
    ELSE IF n_scored >= 3 /\ n_max >= 3 /\ conversion_raises("max_characters", bad)
         THEN 99
    ELSE IF comparing /\ conversion_raises("max_sources", bad) THEN 112
    ELSE 0

\* question_raises for "user_question.lower()" without the guard
question_raises_unguarded(question) == lower_raises(question)

\* "user_question.lower() if user_question else ''": lower is called on a
\* question that is true only
question_raises(question) == truthy(question) /\ lower_raises(question)

\* The line of find_matching_documents that raises for the arguments (0: the
\* call returns)
raise_line(qt, sources, n_max, threshold, bad) ==
    LET s == scoring_stops_at(sources, bad, 1)
    IN  IF question_raises(qt.q) THEN 15
        ELSE IF s.line /= 0 THEN s.line
        ELSE selection_raises_at(
                 Len(ScoredPositions(score_all(sources, qt, 1), threshold)),
                 comparing_of(qt), n_max, bad)

(***************************************************************************)
(* State                                                                   *)
(***************************************************************************)
VARIABLES
    pc,               \* "idle": no query running; "done": a query has returned
    loaded_sources,   \* the corpus, in load order
    user_question, topics, max_sources, match_threshold, max_characters,
    base_url,         \* the argument base_url of the call
    scored_sources,   \* the scored copies that passed the threshold, sorted
    matches,          \* the returned records
    scored_pos,       \* corpus position of every element of scored_sources
    match_pos,        \* corpus position of every element of matches
    pass1_len,        \* how many elements of matches the first pass appended
    raised,           \* the call ended in "raise e" instead of a return
    non_numeric,      \* the budget arguments of the call that are not numbers
    scored_count,     \* chunks calculate_enhanced_relevance returned a score for
    \* one caller of calculate_enhanced_relevance
    sc_pc,            \* "off", "input": arguments chosen, "scored": score returned
    sc_text, sc_terms, sc_file,   \* the arguments text, search_terms, file_name
    sc_score,         \* the score returned for the arguments
    sc_prev,          \* the score returned before the last keyword was inserted
    sc_inserts,       \* how many keyword occurrences have been inserted into sc_text
    \* one run of the question analysis and term expansion (lines 14-58)
    te_pc,            \* "off", "input": arguments chosen, "expanded": terms built
    te_question, te_topics,       \* the arguments user_question and topics
    te_terms,         \* unique_terms
    \* the response of document_rag_explorer
    title, main_html, \* title and kind of the main HTML ("": no response yet)
    final_prompt,     \* final_prompt of the early return ("": none)
    rag_calls,        \* the docs argument of every call of generate_rag_response
    arguments,        \* parameters.arguments of the skill: the budgets and the
                      \* names of the budgets the caller left out
    \* one run of competitive_analysis
    ca_pc,            \* "input": the argument is being typed; "returned"
    ca_builder_names, \* parameters.arguments.builder_names
    ca_output,        \* the SkillOutput returned and the functions it came through
    \* one run of find_matches_with_openai_embeddings
    eb_pc,            \* "off", "query", "scoring", "done", "raised"
    eb_sources,       \* the argument loaded_sources
    eb_budget,        \* the arguments max_sources, match_threshold, max_characters
    eb_query,         \* query_embedding (<< >>: none yet)
    eb_query_failed,  \* get_openai_embedding raised for the search query
    eb_outcomes,      \* per document processed: did it fail, and its similarity
    eb_i,             \* the document the loop is at (0: no loop)
    eb_final          \* final_matches, as positions of eb_sources

vars == << pc, loaded_sources, base_url, user_question, topics, max_sources, match_threshold,
           max_characters, scored_sources, matches, scored_pos, match_pos, pass1_len,
           raised, non_numeric, scored_count, sc_pc, sc_text, sc_terms, sc_file, sc_score, sc_prev, sc_inserts,
           te_pc, te_question, te_topics, te_terms,
           title, main_html, final_prompt, rag_calls, arguments,
           ca_pc, ca_builder_names, ca_output,
           eb_pc, eb_sources, eb_budget, eb_query, eb_query_failed, eb_outcomes,
           eb_i, eb_final >>

\* No SkillOutput yet
NoOutput == [final_prompt |-> "", warnings |-> << >>, reached |-> {}, raised |-> ""]

\* The budgets before a run of find_matches_with_openai_embeddings
NoBudget == [ms |-> 0, thr |-> 0, mc |-> 0]

\* parameters.arguments of a skill that has not been run
NoArguments == [ms |-> 0, thr |-> 0, mc |-> 0, absent |-> {}]

skill == << title, main_html, final_prompt, rag_calls, arguments >>
analysis == << ca_pc, ca_builder_names, ca_output >>
embedder == << eb_pc, eb_sources, eb_budget, eb_query, eb_query_failed, eb_outcomes,
              eb_i, eb_final >>
expander == << te_pc, te_question, te_topics, te_terms >>
scorer == << sc_pc, sc_text, sc_terms, sc_file, sc_score, sc_prev, sc_inserts >>
selector == << pc, loaded_sources, base_url, user_question, topics, max_sources, match_threshold,
               max_characters, scored_sources, matches, scored_pos, match_pos,
               pass1_len, raised, non_numeric, scored_count >>

inputs == << user_question, topics, max_sources, match_threshold, max_characters,
            non_numeric, base_url >>
results == << scored_sources, matches, scored_pos, match_pos, pass1_len, raised,
             scored_count >>

InitSelector ==
    /\ pc = "idle"
    /\ loaded_sources = << >>
    /\ user_question = ""
    /\ topics = << >>
    /\ max_sources = 5
    /\ match_threshold = 45
    /\ max_characters = 3000
    /\ scored_sources = << >>
    /\ matches = << >>
    /\ scored_pos = << >>
    /\ match_pos = << >>
    /\ pass1_len = 0
    /\ raised = FALSE
    /\ non_numeric = {}
    /\ scored_count = 0
    /\ base_url = DefaultBaseUrl

InitExpander ==
    /\ te_pc = "off"
    /\ te_question = ""
    /\ te_topics = << >>
    /\ te_terms = << >>

InitSkill ==
    /\ title = "Document Analysis"
    /\ main_html = ""
    /\ final_prompt = ""
    /\ rag_calls = << >>
    /\ arguments = NoArguments
    /\ ca_pc = "off"
    /\ ca_builder_names = ""
    /\ ca_output = NoOutput
    /\ eb_pc = "off"
    /\ eb_sources = << >>
    /\ eb_budget = NoBudget
    /\ eb_query = << >>
    /\ eb_query_failed = FALSE
    /\ eb_outcomes = << >>
    /\ eb_i = 0
    /\ eb_final = << >>

Init ==
    /\ InitSelector
    /\ InitExpander
    /\ InitSkill
    /\ sc_pc = "off"
    /\ sc_text = ""
    /\ sc_terms = << >>
    /\ sc_file = ""
    /\ sc_score = 0
    /\ sc_prev = 0
    /\ sc_inserts = 0

\* load_document_sources appends one row per chunk of pack.json
LoadChunk(c) ==
    /\ pc = "idle"
    /\ Len(loaded_sources) < MaxChunks
    /\ loaded_sources' = Append(loaded_sources, c)
    /\ UNCHANGED << pc, inputs, results, scorer, expander, skill, analysis, embedder >>

\* find_matching_documents from entry to return or raise
Call(qt, base, ms, thr, mc, bad) ==
    /\ pc = "idle"
    /\ IF raise_line(qt, loaded_sources, ms, thr, bad) = 0
       THEN LET r == find_matching_documents(qt, loaded_sources, ms, thr, mc)
            IN  /\ scored_pos' = r.scored
                /\ match_pos' = r.matched
                /\ pass1_len' = r.pass1
                /\ scored_sources' = records_at(r.scored, r.rec, 1)
                /\ matches' = records_at(r.matched, r.rec, 1)
                /\ scored_count' = Len(loaded_sources)
                /\ raised' = FALSE
                /\ loaded_sources' = corpus_after_scoring(loaded_sources, qt, thr)
       \* "raise e": nothing is returned
       ELSE /\ scored_pos' = << >>
            /\ match_pos' = << >>
            /\ pass1_len' = 0
            /\ scored_sources' = << >>
            /\ matches' = << >>
            /\ scored_count' = scoring_stops_at(loaded_sources, bad, 1).scored
            /\ raised' = TRUE
            /\ UNCHANGED loaded_sources
    /\ user_question' = qt.q
    /\ topics' = qt.t
    /\ max_sources' = ms
    /\ match_threshold' = thr
    /\ max_characters' = mc
    /\ non_numeric' = bad
    /\ base_url' = base
    /\ pc' = "done"
    /\ UNCHANGED << scorer, expander, analysis, embedder >>

\* One call of find_matching_documents by a caller other than the skill
FindMatchingDocuments(qt, base, ms, thr, mc, bad) ==
    /\ Call(qt, base, ms, thr, mc, bad)
    /\ UNCHANGED skill

\* The caller has consumed the result; the scored copies are discarded
Return ==
    /\ pc = "done"
    /\ pc' = "idle"
    /\ scored_sources' = << >>
    /\ matches' = << >>
    /\ scored_pos' = << >>
    /\ match_pos' = << >>
    /\ pass1_len' = 0
    /\ raised' = FALSE
    /\ scored_count' = 0
    /\ non_numeric' = {}
    /\ base_url' = DefaultBaseUrl
    /\ user_question' = ""
    /\ topics' = << >>
    /\ max_sources' = 5
    /\ match_threshold' = 45
    /\ max_characters' = 3000
    /\ title' = "Document Analysis"
    /\ main_html' = ""
    /\ final_prompt' = ""
    /\ rag_calls' = << >>
    /\ arguments' = NoArguments
    /\ UNCHANGED << loaded_sources, scorer, expander, analysis, embedder >>

Next ==
    \/ \E c \in ChunkPool : LoadChunk(c)
    \/ \E qt \in Queries, ms \in MaxSourcesValues, thr \in ThresholdValues,
          mc \in MaxCharactersValues :
            FindMatchingDocuments(qt, DefaultBaseUrl, ms, thr, mc, {})
    \/ Return

Spec == Init /\ [][Next]_vars

\* The same calls on the rows, questions and budgets at the boundary
NextBoundary ==
    \/ \E c \in BoundaryPool : LoadChunk(c)
    \/ \E qt \in BoundaryQueries, b \in BoundaryBudgets, base \in BoundaryBaseUrls :
          FindMatchingDocuments(qt, base, b.ms, b.thr, b.mc, b.bad)
    \/ Return

SpecBoundary == Init /\ [][NextBoundary]_vars

(***************************************************************************)
(* The scorer on its own: calculate_enhanced_relevance applied to bounded  *)
(* arguments, and to the text after one more keyword occurrence has been   *)
(* inserted as a word of its own.                                          *)
(***************************************************************************)
MaxTextLen == 24
MaxInserts == 2

ScoreTexts ==
    { "",
      "mortgage and rate",
      "limited time offer",
      "Generic report with no relevant keywords.",
      "Lennar offers 2.99% APR special financing during our National Sales Event." }

ScoreTermLists ==
    { << >>,
      << "mortgage rate" >>,
      << "lennar", "meritage" >>,
      << "financing", "lennar", "special" >> }

ScoreFileNames == { "Other.pdf", "Lennar_Brief.pdf" }

\* Keywords of critical_keywords that are inserted
InsertKeywords == { "rate", "apr", "$" }

\* The places where a word can be inserted: the two ends and every blank
InsertPoints(text) ==
    {0, Len(text)} \cup {i \in 1..Len(text) : SubSeq(text, i, i) = " "}

\* text with keyword k inserted at insert point i as a word of its own
InsertWord(text, k, i) ==
    IF text = "" THEN k
    ELSE IF i = 0 THEN k \o " " \o text
    ELSE IF i = Len(text) THEN text \o " " \o k
    ELSE SubSeq(text, 1, i) \o k \o " " \o SubSeq(text, i + 1, Len(text))

InitScore ==
    /\ InitSelector
    /\ InitExpander
    /\ InitSkill
    /\ sc_pc = "input"
    /\ sc_text \in ScoreTexts
    /\ sc_terms \in ScoreTermLists
    /\ sc_file \in ScoreFileNames
    /\ sc_score = 0
    /\ sc_prev = 0
    /\ sc_inserts = 0

\* One call of calculate_enhanced_relevance
Score ==
    /\ sc_pc = "input"
    /\ sc_score' = calculate_enhanced_relevance(sc_text, sc_terms, sc_file)
    /\ sc_prev' = sc_score
    /\ sc_pc' = "scored"
    /\ UNCHANGED << sc_text, sc_terms, sc_file, sc_inserts, selector, expander, skill,
                    analysis, embedder >>

\* The text gains one occurrence of keyword k and is scored again
InsertKeyword(k, i) ==
    /\ sc_pc = "scored"
    /\ sc_inserts < MaxInserts
    /\ Len(InsertWord(sc_text, k, i)) <= MaxTextLen
    /\ sc_text' = InsertWord(sc_text, k, i)
    /\ sc_score' = calculate_enhanced_relevance(sc_text', sc_terms, sc_file)
    /\ sc_prev' = sc_score
    /\ sc_inserts' = sc_inserts + 1
    /\ UNCHANGED << sc_pc, sc_terms, sc_file, selector, expander, skill,
                    analysis, embedder >>

NextScore ==
    \/ Score
    \/ \E k \in InsertKeywords : \E i \in InsertPoints(sc_text) : InsertKeyword(k, i)

SpecScore == InitScore /\ [][NextScore]_vars

(***************************************************************************)
(* The question analysis and term expansion on their own: the topics are   *)
(* appended one by one, then the term list is built.                       *)
(***************************************************************************)
MaxTopics == 2

TermQuestions ==
    { "", None, "Lennar", "compare Special PRICE", "financing vs Meritage" }

TermTopics == { "", "APR", "apr", "lennar", "Discount" }

InitTerms ==
    /\ InitSelector
    /\ sc_pc = "off"
    /\ sc_text = ""
    /\ sc_terms = << >>
    /\ sc_file = ""
    /\ sc_score = 0
    /\ sc_prev = 0
    /\ sc_inserts = 0
    /\ te_pc = "input"
    /\ te_question \in TermQuestions
    /\ te_topics = << >>
    /\ te_terms = << >>
    /\ InitSkill

\* The caller appends a topic to the list it is going to pass
AddTopic(t) ==
    /\ te_pc = "input"
    /\ Len(te_topics) < MaxTopics
    /\ te_topics' = Append(te_topics, t)
    /\ UNCHANGED << te_pc, te_question, te_terms, selector, scorer, skill,
                    analysis, embedder >>

\* Lines 14-58: search_terms is built and its duplicates are removed
ExpandTerms ==
    /\ te_pc = "input"
    /\ te_terms' = unique_terms(te_question, te_topics)
    /\ te_pc' = "expanded"
    /\ UNCHANGED << te_question, te_topics, selector, scorer, skill,
                    analysis, embedder >>

NextTerms ==
    \/ \E t \in TermTopics : AddTopic(t)
    \/ ExpandTerms

SpecTerms == InitTerms /\ [][NextTerms]_vars

(***************************************************************************)
(* document_rag_explorer: the skill loads the corpus, applies the defaults *)
(* of its arguments, calls find_matching_documents with no topics and      *)
(* builds the response.  The arguments the caller left out are named in    *)
(* arguments.absent; they are None in parameters.arguments.                *)
(***************************************************************************)
\* "parameters.arguments.x or default": None and 0 are false
or_default(arg, is_absent, default) == IF is_absent \/ arg = 0 THEN default ELSE arg

\* The questions of the skill: list_of_topics is []
SkillQueries == { qt \in Queries : qt.t = << >> }

SkillMaxSources == {0, 2}
SkillThresholds == {0, 300}
SkillMaxCharacters == {0}

BudgetNames == {"max_sources", "match_threshold", "max_characters"}

\* parameters.arguments: every budget supplied, or none of them
SkillArguments ==
    { [ms |-> ms, thr |-> thr, mc |-> mc, absent |-> {}] :
        ms \in SkillMaxSources, thr \in SkillThresholds, mc \in SkillMaxCharacters }
    \cup { [ms |-> 0, thr |-> 0, mc |-> 0, absent |-> BudgetNames] }

\* What generate_rag_response and the template rendering do with the docs:
\* a response, None, an exception of the LLM call, an exception of the rendering
LlmOutcomes == { "ok", "none", "raises", "template_error" }

\* response_for with generate_rag_response called whatever docs holds
response_always_generated(docs, llm) ==
    [title     |-> IF llm = "ok" THEN "response title"
                   ELSE IF llm = "template_error" THEN "Template Error" ELSE "Error",
     main_html |-> IF llm = "ok" THEN "response"
                   ELSE IF llm = "template_error" THEN "Error rendering content"
                   ELSE IF llm = "none" THEN "Error generating response from documents."
                   ELSE "Error processing request",
     rag_calls |-> << docs >>]

\* Lines 123-182: title, main HTML and calls of generate_rag_response for the
\* list find_matching_documents returned
response_for(docs, llm) ==
    IF docs = << >>
    THEN [title     |-> "No Results Found",
          main_html |-> "No relevant documents found",
          rag_calls |-> << >>]
    ELSE [title     |-> IF llm = "ok" THEN "response title"
                        ELSE IF llm = "template_error" THEN "Template Error"
                        ELSE "Error",
          main_html |-> IF llm = "ok" THEN "response"
                        ELSE IF llm = "template_error" THEN "Error rendering content"
                        ELSE IF llm = "none"
                             THEN "Error generating response from documents."
                        ELSE "Error processing request",
          rag_calls |-> << docs >>]

\* One run of the skill
DocumentRagExplorer(qt, a, llm) ==
    /\ arguments' = a
    /\ IF loaded_sources = << >>
       THEN \* "if not loaded_sources: return SkillOutput(final_prompt=...)"
            /\ pc = "idle"
            /\ pc' = "done"
            /\ final_prompt' = "No document sources found. Please ensure pack.json is available."
            /\ UNCHANGED << loaded_sources, inputs, results, title, main_html, rag_calls,
                            scorer, expander, analysis, embedder >>
       ELSE /\ Call(qt, DefaultBaseUrl,
                    or_default(a.ms, "max_sources" \in a.absent, 5),
                    or_default(a.thr, "match_threshold" \in a.absent, 45),
                    or_default(a.mc, "max_characters" \in a.absent, 3000), {})
            /\ IF raised'
               THEN \* "except Exception as e" of the skill
                    /\ title' = "Error"
                    /\ main_html' = "Error processing request"
                    /\ rag_calls' = << >>
               ELSE LET r == response_for(matches', llm)
                    IN  /\ title' = r.title
                        /\ main_html' = r.main_html
                        /\ rag_calls' = r.rag_calls
            /\ UNCHANGED final_prompt

NextSkill ==
    \/ \E c \in ChunkPool : LoadChunk(c)
    \/ \E qt \in SkillQueries, a \in SkillArguments, llm \in LlmOutcomes :
          DocumentRagExplorer(qt, a, llm)
    \/ Return

SpecSkill == Init /\ [][NextSkill]_vars

(***************************************************************************)
(* enhanced_matching.py: the variant of the scorer and of the selector.    *)
(* Its keyword table caps a keyword at twice its weight, its words count   *)
(* their occurrences, and its first pass skips the chunks of the           *)
(* competitor the question does not mention.                               *)
(***************************************************************************)
\* critical_keywords of enhanced_matching.py: keyword -> weight in hundredths
em_critical_keywords ==
    << <<"apr", 50>>, <<"rate", 40>>, <<"buydown", 60>>, <<"mortgage", 40>>,
       <<"financing", 50>>, <<"payment", 30>>, <<"monthly", 30>>,
       <<"qualification", 30>>, <<"credit", 30>>,
       <<"special", 50>>, <<"event", 40>>, <<"promotion", 50>>, <<"limited", 40>>,
       <<"offer", 40>>, <<"sale", 40>>, <<"national", 30>>, <<"exclusive", 40>>,
       <<"incentive", 50>>,
       <<"price", 40>>, <<"reduction", 50>>, <<"reduced", 50>>, <<"discount", 50>>,
       <<"$", 30>>, <<"cost", 30>>, <<"affordable", 30>>, <<"starting", 30>>,
       <<"available", 30>>, <<"inventory", 40>>, <<"move-in", 40>>, <<"ready", 30>>,
       <<"quick", 30>>, <<"immediate", 30>>,
       <<"lennar", 30>>, <<"meritage", 30>> >>

em_IsCritical(word) ==
    \E i \in 1..Len(em_critical_keywords) : em_critical_keywords[i][1] = word

em_WeightOf(word) ==
    em_critical_keywords[CHOOSE i \in 1..Len(em_critical_keywords) :
                            em_critical_keywords[i][1] = word][2]

em_high_value_patterns ==
    << <<"national sales event", 80>>, <<"special financing", 70>>,
       <<"limited time", 50>>, <<"move-in ready", 50>>,
       <<"price reduction", 60>>, <<"apr buydown", 80>>,
       <<"closing cost", 50>>, <<"monthly payment", 50>> >>

\* "Check for critical keywords first": min(count * weight, weight * 2)
em_KeywordScore(text_lower) ==
    SumSeq([i \in 1..Len(em_critical_keywords) |->
              IF str_in(em_critical_keywords[i][1], text_lower)
              THEN Min(str_count(em_critical_keywords[i][1], text_lower)
                         * em_critical_keywords[i][2],
                       em_critical_keywords[i][2] * 2)
              ELSE 0])

\* "Word-by-word matching": critical_keywords[word] * min(occurrences, 3), or
\* min(occurrences * 0.15, 0.4)
em_WordScore(words, text_lower) ==
    SumSeq([i \in 1..Len(words) |->
              IF Len(words[i]) < 3 THEN 0
              ELSE IF str_in(words[i], text_lower)
                   THEN (IF em_IsCritical(words[i])
                         THEN em_WeightOf(words[i])
                                * Min(str_count(words[i], text_lower), 3)
                         ELSE Min(str_count(words[i], text_lower) * 15, 40))
                   ELSE 0])

\* "Completeness bonus": matched_words / len(words) >= 0.7, or >= 0.5
em_Completeness(n_words, matched_words) ==
    IF n_words > 1 /\ matched_words > 0
    THEN (IF matched_words * 10 >= 7 * n_words THEN 30
          ELSE IF matched_words * 2 >= n_words THEN 15
          ELSE 0)
    ELSE 0

\* The body of the loop "for term in search_terms" for one term
em_TermScore(term, text_lower) ==
    IF ~truthy(term) THEN 0
    ELSE LET term_lower == lower(term)
         IN  IF Len(term_lower) > 3 /\ str_in(term_lower, text_lower)
             THEN Min(str_count(term_lower, text_lower) * 60, 150)
             ELSE LET words == str_split(term_lower)
                  IN  em_WordScore(words, text_lower)
                      + em_Completeness(Len(words), MatchedWords(words, text_lower))

em_PatternScore(text_lower) ==
    SumSeq([i \in 1..Len(em_high_value_patterns) |->
              IF str_in(em_high_value_patterns[i][1], text_lower)
              THEN em_high_value_patterns[i][2] ELSE 0])

\* "File name bonus - if searching for specific company": 0.2 per company
em_FileNameBonus(terms, file_name) ==
    LET file_lower == lower(file_name)
        searched(company) ==
            \E i \in 1..Len(terms) : str_in(company, lower(terms[i]))
    IN  (IF str_in("lennar", file_lower) /\ searched("lennar") THEN 20 ELSE 0)
        + (IF str_in("meritage", file_lower) /\ searched("meritage") THEN 20 ELSE 0)

\* calculate_enhanced_relevance of enhanced_matching.py: min(score / 3.0, 1.0)
em_calculate_enhanced_relevance(text, terms, file_name) ==
    LET text_lower == lower(text)
    IN  Min(em_KeywordScore(text_lower)
            + SumSeq([i \in 1..Len(terms) |-> em_TermScore(terms[i], text_lower)])
            + em_PatternScore(text_lower)
            + em_FileNameBonus(terms, file_name),
            ScoreOne)

\* mentions_competitors
em_competitor_words == << "competitors", "competition", "both", "compare" >>

mentions_competitors(question) ==
    \E i \in 1..Len(em_competitor_words) :
        str_in(em_competitor_words[i], question_lower(question))

em_both_words == << "compare", "versus", "vs", "and", "both" >>

\* wants_both = mentions_both or mentions_competitors or any(word in question_lower ...)
wants_both(question) ==
    \/ mentions_both(question)
    \/ mentions_competitors(question)
    \/ \E i \in 1..Len(em_both_words) :
          str_in(em_both_words[i], question_lower(question))

\* "Skip if we want only Meritage" / "Skip if we want only Lennar"
only_meritage(question) ==
    mentions_meritage(question) /\ ~mentions_lennar(question) /\ ~mentions_both(question)

only_lennar(question) ==
    mentions_lennar(question) /\ ~mentions_meritage(question) /\ ~mentions_both(question)

em_keyword_expansions ==
    << <<"financing",
         << "financing", "finance", "mortgage", "loan", "apr", "rate", "payment",
            "buydown", "interest", "monthly payment", "qualification", "credit",
            "lending", "lender" >> >>,
       <<"special",
         << "special", "promotion", "offer", "event", "sale", "limited time",
            "exclusive", "discount", "incentive", "deal", "savings",
            "national sales event" >> >>,
       <<"price",
         << "price", "pricing", "cost", "$", "reduction", "reduced", "discount",
            "drop", "decrease", "lower", "affordable", "starting from",
            "base price" >> >>,
       <<"inventory",
         << "inventory", "available", "availability", "move-in ready", "quick move",
            "homes available", "in stock", "ready now", "immediate" >> >>,
       <<"home",
         << "home", "house", "property", "residence", "unit", "model", "floor plan",
            "community" >> >>,
       <<"new",
         << "new", "latest", "current", "upcoming", "recent", "now", "today" >> >> >>

RECURSIVE em_ExpansionsFrom(_, _)
em_ExpansionsFrom(ql, i) ==
    IF i > Len(em_keyword_expansions) THEN << >>
    ELSE (IF str_in(em_keyword_expansions[i][1], ql)
          THEN em_keyword_expansions[i][2] ELSE << >>)
         \o em_ExpansionsFrom(ql, i + 1)

em_search_terms(question, topic_list) ==
    (IF truthy(question) THEN << question >> ELSE << >>)
    \o em_ExpansionsFrom(question_lower(question), 1)
    \o (IF mentions_lennar(question) \/ mentions_competitors(question)
        THEN << "lennar", "len" >> ELSE << >>)
    \o (IF mentions_meritage(question) \/ mentions_competitors(question)
        THEN << "meritage", "mhi" >> ELSE << >>)
    \o NonEmpty(topic_list)

em_unique_terms(question, topic_list) ==
    Dedup(em_search_terms(question, topic_list), 1, << >>)

\* (question, topic_list) pairs put to enhanced_find_matching_documents
EnhancedQueries ==
    { [q |-> "apr",                 t |-> << >>],
      [q |-> "compare apr",         t |-> << >>],
      [q |-> "Lennar sale",         t |-> << >>],
      [q |-> "Meritage vs apr",     t |-> << >>],
      [q |-> "Lennar and Meritage", t |-> << "sale" >>] }

EnhancedMaxSources == {1, 2, 3}
EnhancedThresholds == {45, 240}
EnhancedMaxCharacters == {20, 3000}

\* The question analysis and the scores tabulated once over the input sets
EnhancedQueryTable ==
    { [qt            |-> qt,
       terms         |-> em_unique_terms(qt.q, qt.t),
       wants_both    |-> wants_both(qt.q),
       only_lennar   |-> only_lennar(qt.q),
       only_meritage |-> only_meritage(qt.q)] : qt \in EnhancedQueries }

em_intent_of(qt) == CHOOSE r \in EnhancedQueryTable : r.qt = qt

EnhancedRelevanceTable ==
    { [source |-> c, qt |-> qt,
       score  |-> em_calculate_enhanced_relevance(c.text, em_intent_of(qt).terms,
                                                  c.file_name)] :
      c \in ChunkPool, qt \in EnhancedQueries }

em_score_of(source, qt) ==
    (CHOOSE r \in EnhancedRelevanceTable : r.source = source /\ r.qt = qt).score

\* source_copy of enhanced_find_matching_documents
em_source_copy(source, qt) ==
    [file_name   |-> source.file_name,
     text        |-> source.text,
     chunk_index |-> source.chunk_index,
     match_score |-> em_score_of(source, qt),
     url         |-> url_of(source.file_name, source.chunk_index)]

RECURSIVE em_score_all(_, _, _)
em_score_all(sources, qt, i) ==
    IF i > Len(sources) THEN << >>
    ELSE << em_source_copy(sources[i], qt) >> \o em_score_all(sources, qt, i + 1)

\* The selection state after the candidate has been appended
em_appended(st, p, rec, lennar, meritage) ==
    [matches      |-> Append(st.matches, p),
     chars_so_far |-> st.chars_so_far + Len(rec[p].text),
     has_lennar   |-> st.has_lennar \/ lennar,
     has_meritage |-> st.has_meritage \/ meritage]

\* "First pass: get best matches respecting diversity if needed"
RECURSIVE em_first_pass(_, _, _, _, _, _, _)
em_first_pass(sorted, i, st, rec, n_max, c_max, intent) ==
    IF i > Len(sorted) THEN st
    ELSE IF Len(st.matches) >= n_max THEN st
    ELSE LET p    == sorted[i]
             over == st.chars_so_far + Len(rec[p].text) > c_max
             skip == em_first_pass(sorted, i + 1, st, rec, n_max, c_max, intent)
         IN  IF over /\ intent.wants_both /\ Len(st.matches) < 2
                /\ (~st.has_lennar \/ ~st.has_meritage)
             THEN skip
             ELSE IF over /\ Len(st.matches) >= 2 THEN st
             ELSE IF is_lennar(rec[p].file_name)
                  THEN (IF intent.only_meritage THEN skip
                        ELSE em_first_pass(sorted, i + 1,
                                 em_appended(st, p, rec, TRUE, FALSE),
                                 rec, n_max, c_max, intent))
             ELSE IF is_meritage(rec[p].file_name)
                  THEN (IF intent.only_lennar THEN skip
                        ELSE em_first_pass(sorted, i + 1,
                                 em_appended(st, p, rec, FALSE, TRUE),
                                 rec, n_max, c_max, intent))
             ELSE em_first_pass(sorted, i + 1,
                      em_appended(st, p, rec, FALSE, FALSE),
                      rec, n_max, c_max, intent)

\* The first candidate of a company that is not yet among the matches, appended
em_backfill(sorted, m, rec, company) ==
    LET cand == {i \in 1..Len(sorted) :
                    str_in(company, rec[sorted[i]].file_name)
                    /\ ~in_matches(sorted[i], m, rec)}
    IN  IF cand = {} THEN m
        ELSE Append(m, sorted[CHOOSE i \in cand : \A j \in cand : i <= j])

\* "Second pass: if we want both but missing one, find it"
em_second_pass(sorted, st, rec, intent, n_max) ==
    IF intent.wants_both /\ Len(st.matches) < n_max
    THEN LET m1 == IF ~st.has_lennar
                   THEN em_backfill(sorted, st.matches, rec, "Lennar") ELSE st.matches
         IN  IF ~st.has_meritage THEN em_backfill(sorted, m1, rec, "Meritage") ELSE m1
    ELSE st.matches

\* The whole function, with the threshold filter and the sort of
\* find_matching_documents (the same statements)
enhanced_find_matching_documents(qt, sources, n_max, threshold, c_max) ==
    LET rec    == em_score_all(sources, qt, 1)
        key    == [p \in 1..Len(sources) |-> rec[p].match_score]
        sorted == sort_by_score(ScoredPositions(rec, threshold), key)
        intent == em_intent_of(qt)
        st     == em_first_pass(sorted, 1,
                                [matches |-> << >>, chars_so_far |-> 0,
                                 has_lennar |-> FALSE, has_meritage |-> FALSE],
                                rec, n_max, c_max, intent)
        final  == em_second_pass(sorted, st, rec, intent, n_max)
    IN  [rec     |-> rec,
         scored  |-> sorted,
         pass1   |-> Len(st.matches),
         matched |-> final]

\* One call of enhanced_find_matching_documents, from entry to return
EnhancedFindMatchingDocuments(qt, ms, thr, mc) ==
    /\ pc = "idle"
    /\ LET r == enhanced_find_matching_documents(qt, loaded_sources, ms, thr, mc)
       IN  /\ scored_pos' = r.scored
           /\ match_pos' = r.matched
           /\ pass1_len' = r.pass1
           /\ scored_sources' = records_at(r.scored, r.rec, 1)
           /\ matches' = records_at(r.matched, r.rec, 1)
    /\ scored_count' = Len(loaded_sources)
    /\ raised' = FALSE
    /\ user_question' = qt.q
    /\ topics' = qt.t
    /\ max_sources' = ms
    /\ match_threshold' = thr
    /\ max_characters' = mc
    /\ non_numeric' = {}
    /\ base_url' = DefaultBaseUrl
    /\ pc' = "done"
    /\ UNCHANGED << loaded_sources, scorer, expander, skill, analysis, embedder >>

NextEnhanced ==
    \/ \E c \in ChunkPool : LoadChunk(c)
    \/ \E qt \in EnhancedQueries, ms \in EnhancedMaxSources,
          thr \in EnhancedThresholds, mc \in EnhancedMaxCharacters :
            EnhancedFindMatchingDocuments(qt, ms, thr, mc)
    \/ Return

SpecEnhanced == Init /\ [][NextEnhanced]_vars

(***************************************************************************)
(* competitive_analysis.py: the builder names are parsed, the data of      *)
(* every builder is extracted, and the skill either returns its "no data"  *)
(* output or goes on to the insights and the dashboard.  A dict is a       *)
(* function from its keys; the texts of the narrative are not modelled.    *)
(***************************************************************************)
MaxBuilders == 3

\* Names a caller may put into builder_names
BuilderPool == { "Lennar", "MERITAGE", " Dream Finders", "Pulte Homes", "dr horton", "Acme" }

\* default_value of builder_names and the default of "builder_names or ..."
DefaultBuilderNames == "Lennar, Meritage, Dream Finders, Pulte"

\* builder_names.split(","): one piece more than there are commas
RECURSIVE SplitCommaFrom(_, _, _)
SplitCommaFrom(s, i, cur) ==
    IF i > Len(s) THEN << cur >>
    ELSE IF SubSeq(s, i, i) = ","
         THEN << cur >> \o SplitCommaFrom(s, i + 1, "")
         ELSE SplitCommaFrom(s, i + 1, cur \o SubSeq(s, i, i))

split_comma(s) == SplitCommaFrom(s, 1, "")

\* str.strip() for blanks
RECURSIVE str_strip(_)
str_strip(s) ==
    IF s = "" THEN ""
    ELSE IF SubSeq(s, 1, 1) = " " THEN str_strip(SubSeq(s, 2, Len(s)))
    ELSE IF SubSeq(s, Len(s), Len(s)) = " " THEN str_strip(SubSeq(s, 1, Len(s) - 1))
    ELSE s

RECURSIVE StripLowerFrom(_, _)
StripLowerFrom(pieces, i) ==
    IF i > Len(pieces) THEN << >>
    ELSE << lower(str_strip(pieces[i])) >> \o StripLowerFrom(pieces, i + 1)

\* builders = [b.strip().lower() for b in builder_names.split(",")], after
\* "parameters.arguments.builder_names or ..."
builders_of(builder_names) ==
    StripLowerFrom(split_comma(IF builder_names = "" THEN DefaultBuilderNames
                               ELSE builder_names), 1)

\* The branch of the if/elif chain of the three extract functions
builder_branch(builder) ==
    IF str_in("lennar", lower(builder)) THEN "lennar"
    ELSE IF str_in("meritage", lower(builder)) THEN "meritage"
    ELSE IF str_in("dream", lower(builder)) THEN "dream"
    ELSE IF str_in("pulte", lower(builder)) THEN "pulte"
    ELSE ""

\* len(financing_info["rates"]) at the return of extract_financing_data
financing_rates(builder) ==
    CASE builder_branch(builder) = "lennar"   -> 2
      [] builder_branch(builder) = "meritage" -> 1
      [] builder_branch(builder) = "dream"    -> 2
      [] builder_branch(builder) = "pulte"    -> 1
      [] OTHER -> 0

\* extract_financing_data returns financing_info if it has rates, else None
has_financing(builder) == financing_rates(builder) > 0

\* inventory_info["total_homes"] at the return of extract_inventory_data
total_homes(builder) ==
    CASE builder_branch(builder) = "lennar"   -> 43
      [] builder_branch(builder) = "meritage" -> 114
      [] builder_branch(builder) = "dream"    -> 25
      [] builder_branch(builder) = "pulte"    -> 47
      [] OTHER -> 0

\* extract_inventory_data returns inventory_info if total_homes > 0, else None
has_inventory(builder) == total_homes(builder) > 0

\* pricing_info["avg_price"] (0 for None); extract_pricing_data always returns
\* pricing_info, a dict of four keys
avg_price(builder) ==
    CASE builder_branch(builder) = "lennar"   -> 450000
      [] builder_branch(builder) = "meritage" -> 450000
      [] builder_branch(builder) = "dream"    -> 400000
      [] builder_branch(builder) = "pulte"    -> 440000
      [] OTHER -> 0

has_pricing(builder) == TRUE

\* extract_competitive_data: the dict of the four sections
extract_competitive_data(builders) ==
    LET names == {builders[i] : i \in 1..Len(builders)}
    IN  [financing |-> [b \in {n \in names : has_financing(n)} |-> financing_rates(b)],
         inventory |-> [b \in {n \in names : has_inventory(n)} |-> total_homes(b)],
         pricing   |-> [b \in {n \in names : has_pricing(n)} |-> avg_price(b)],
         metadata  |-> [b \in {} |-> 0]]

\* "not d" for a dict d
dict_is_empty(d) == DOMAIN d = {}

NoDataPrompt ==
    "No competitive data found. Please ensure competitor documents are loaded in the pack."

\* The largest amount parse_dollar_amount finds in the incentives of a builder
\* ("Fixed for First 7 Years" yields 7), 0 without incentives
incentive_amount(builder) ==
    CASE builder_branch(builder) = "lennar" -> 7500
      [] builder_branch(builder) = "dream"  -> 21000
      [] builder_branch(builder) = "pulte"  -> 7
      [] OTHER -> 0

\* insights["best_incentive"]["builder"] of generate_insights is None
no_best_incentive(data) ==
    \A b \in DOMAIN data.financing : incentive_amount(b) = 0

\* df_financing = data["financing"].get("dream finders", {}) has rates
df_has_rates(data) == "dream finders" \in DOMAIN data.financing

\* generate_insights_narrative: the exception it ends in ("": none).
\* best_incentive['builder'].title() needs a builder; df_rate and
\* best_rate_val are bound only when Dream Finders has rates
narrative_raises(data) ==
    IF no_best_incentive(data) THEN "AttributeError"
    ELSE IF ~df_has_rates(data) THEN "UnboundLocalError"
    ELSE ""

\* competitive_analysis: the output, the functions called after the
\* extraction, and the exception that leaves the skill
competitive_analysis(builder_names) ==
    LET competitive_data == extract_competitive_data(builders_of(builder_names))
    IN  IF dict_is_empty(competitive_data)
        THEN [final_prompt |-> NoDataPrompt,
              warnings     |-> << "No data available" >>,
              reached      |-> {},
              raised       |-> ""]
        ELSE [final_prompt |-> IF narrative_raises(competitive_data) = ""
                               THEN "narrative" ELSE "",
              warnings     |-> << >>,
              reached      |-> {"generate_insights", "create_competitive_dashboard",
                                "format_narrative", "generate_insights_narrative"},
              raised       |-> narrative_raises(competitive_data)]

InitCompetitive ==
    /\ InitSelector
    /\ InitExpander
    /\ sc_pc = "off"
    /\ sc_text = ""
    /\ sc_terms = << >>
    /\ sc_file = ""
    /\ sc_score = 0
    /\ sc_prev = 0
    /\ sc_inserts = 0
    /\ title = "Document Analysis"
    /\ main_html = ""
    /\ final_prompt = ""
    /\ rag_calls = << >>
    /\ arguments = NoArguments
    /\ ca_pc = "input"
    /\ ca_builder_names = ""
    /\ ca_output = NoOutput
    /\ eb_pc = "off"
    /\ eb_sources = << >>
    /\ eb_budget = NoBudget
    /\ eb_query = << >>
    /\ eb_query_failed = FALSE
    /\ eb_outcomes = << >>
    /\ eb_i = 0
    /\ eb_final = << >>

\* The caller adds one name to the comma-separated argument
AddBuilder(name) ==
    /\ ca_pc = "input"
    /\ ca_builder_names = "" \/ Len(split_comma(ca_builder_names)) < MaxBuilders
    /\ ca_builder_names' = IF ca_builder_names = "" THEN name
                           ELSE ca_builder_names \o "," \o name
    /\ UNCHANGED << ca_pc, ca_output, selector, scorer, expander, skill, embedder >>

\* One run of the skill
CompetitiveAnalysis ==
    /\ ca_pc = "input"
    /\ ca_output' = competitive_analysis(ca_builder_names)
    /\ ca_pc' = "returned"
    /\ UNCHANGED << ca_builder_names, selector, scorer, expander, skill, embedder >>

NextCompetitive ==
    \/ \E name \in BuilderPool : AddBuilder(name)
    \/ CompetitiveAnalysis

SpecCompetitive == InitCompetitive /\ [][NextCompetitive]_vars

(***************************************************************************)
(* find_matches_with_openai_embeddings (document_rag_explorer.py): the     *)
(* embedding service is outside the program, so every call of              *)
(* get_openai_embedding either raises or returns a vector of the           *)
(* environment's choice.  Similarities are counted in hundredths; the      *)
(* vectors have integer norms, so nothing is rounded.                      *)
(***************************************************************************)
MaxDocs == 3

\* The rows the caller may pass as loaded_sources
EmbedPool ==
    { [file_name |-> "Lennar_Brief.pdf", text |-> "Lennar apr sale", chunk_index |-> 1],
      [file_name |-> "Other.pdf", text |-> "2.99% apr special financing", chunk_index |-> 1] }

EmbedMaxSources == {0, 1, 2, 3}
EmbedThresholds == {60}
EmbedMaxCharacters == {20, 50}

\* What get_openai_embedding can do for the search query and for a document
QueryEmbeddings ==
    { [failed |-> TRUE, vec |-> << >>], [failed |-> FALSE, vec |-> << 3, 4 >>] }

DocEmbeddings ==
    { [failed |-> TRUE,  vec |-> << >>],
      [failed |-> FALSE, vec |-> << 4, 3 >>],
      [failed |-> FALSE, vec |-> << 1, 0 >>],
      [failed |-> FALSE, vec |-> << 0, 0 >>] }

\* np.dot(a, b)
dot_product(a, b) == SumSeq([i \in 1..Len(a) |-> a[i] * b[i]])

\* np.linalg.norm(a), for vectors whose norm is an integer
norm(a) == CHOOSE n \in 0..dot_product(a, a) : n * n = dot_product(a, a)

\* cosine_similarity, in hundredths; 0.0 for a zero vector, and 0.0 when
\* numpy raises (vectors of different lengths)
cosine_similarity(a, b) ==
    IF Len(a) /= Len(b) THEN 0
    ELSE IF norm(a) = 0 \/ norm(b) = 0 THEN 0
    ELSE (dot_product(a, b) * 100) \div (norm(a) * norm(b))

\* The document loop leaving the loop when one document fails
abort_after_failure(i, n) == n + 1

\* "except Exception as e: ... continue": the loop goes on with the next document
after_document_failure(i, n) == i + 1

\* One pass of the document loop: the outcome recorded for the document
document_outcome(query_embedding, embedding) ==
    IF embedding.failed
    THEN [failed |-> TRUE, similarity |-> 0]
    ELSE [failed |-> FALSE,
          similarity |-> cosine_similarity(query_embedding, embedding.vec)]

\* matches: the documents at or above the threshold, in corpus order
RECURSIVE eb_matches(_, _, _)
eb_matches(outcomes, threshold, i) ==
    IF i > Len(outcomes) THEN << >>
    ELSE (IF ~outcomes[i].failed /\ passes_threshold(outcomes[i].similarity, threshold)
          THEN << i >> ELSE << >>)
         \o eb_matches(outcomes, threshold, i + 1)

\* "Select top matches respecting character limit"
RECURSIVE eb_select(_, _, _, _, _, _, _)
eb_select(sorted, i, final, chars_so_far, sources, n_max, c_max) ==
    IF i > Len(sorted) THEN final
    ELSE IF Len(final) >= n_max THEN final
    ELSE IF Len(final) >= 2 /\ chars_so_far + Len(sources[sorted[i]].text) > c_max
         THEN final
    ELSE eb_select(sorted, i + 1, Append(final, sorted[i]),
                   chars_so_far + Len(sources[sorted[i]].text), sources, n_max, c_max)

\* The statements after the document loop: sort, then select
final_matches(sources, outcomes, budget) ==
    LET key    == [p \in 1..Len(sources) |->
                     IF p <= Len(outcomes) THEN outcomes[p].similarity ELSE 0]
        sorted == sort_by_score(eb_matches(outcomes, budget.thr, 1), key)
    IN  eb_select(sorted, 1, << >>, 0, sources, budget.ms, budget.mc)

\* The caller's corpus gains one row
EmbedLoad(c) ==
    /\ eb_pc = "off"
    /\ Len(eb_sources) < MaxDocs
    /\ eb_sources' = Append(eb_sources, c)
    /\ UNCHANGED << eb_pc, eb_budget, eb_query, eb_query_failed, eb_outcomes, eb_i,
                    eb_final, selector, scorer, expander, skill, analysis >>

\* Entry of find_matches_with_openai_embeddings
EmbedStart(ms, thr, mc) ==
    /\ eb_pc = "off"
    /\ eb_budget' = [ms |-> ms, thr |-> thr, mc |-> mc]
    /\ eb_pc' = "query"
    /\ UNCHANGED << eb_sources, eb_query, eb_query_failed, eb_outcomes, eb_i, eb_final,
                    selector, scorer, expander, skill, analysis >>

\* query_embedding = get_openai_embedding(search_query); its exception reaches
\* the outer "except Exception as e: ... raise e"
EmbedQuery(embedding) ==
    /\ eb_pc = "query"
    /\ eb_query_failed' = embedding.failed
    /\ eb_query' = embedding.vec
    /\ eb_pc' = IF embedding.failed THEN "raised" ELSE "scoring"
    /\ eb_i' = 1
    /\ UNCHANGED << eb_sources, eb_budget, eb_outcomes, eb_final,
                    selector, scorer, expander, skill, analysis >>

\* One pass of "for i, source in enumerate(loaded_sources)"
EmbedDocument(embedding) ==
    /\ eb_pc = "scoring"
    /\ eb_i <= Len(eb_sources)
    /\ eb_outcomes' = Append(eb_outcomes, document_outcome(eb_query, embedding))
    /\ eb_i' = IF embedding.failed THEN after_document_failure(eb_i, Len(eb_sources))
               ELSE eb_i + 1
    /\ UNCHANGED << eb_pc, eb_sources, eb_budget, eb_query, eb_query_failed, eb_final,
                    selector, scorer, expander, skill, analysis >>

\* The loop is over: sort, select, return final_matches
EmbedSelect ==
    /\ eb_pc = "scoring"
    /\ eb_i > Len(eb_sources)
    /\ eb_final' = final_matches(eb_sources, eb_outcomes, eb_budget)
    /\ eb_pc' = "done"
    /\ UNCHANGED << eb_sources, eb_budget, eb_query, eb_query_failed, eb_outcomes, eb_i,
                    selector, scorer, expander, skill, analysis >>

\* The caller has taken the result or the exception
EmbedReturn ==
    /\ eb_pc \in {"done", "raised"}
    /\ eb_pc' = "off"
    /\ eb_budget' = NoBudget
    /\ eb_query' = << >>
    /\ eb_query_failed' = FALSE
    /\ eb_outcomes' = << >>
    /\ eb_i' = 0
    /\ eb_final' = << >>
    /\ UNCHANGED << eb_sources, selector, scorer, expander, skill, analysis >>

NextEmbed ==
    \/ \E c \in EmbedPool : EmbedLoad(c)
    \/ \E ms \in EmbedMaxSources, thr \in EmbedThresholds, mc \in EmbedMaxCharacters :
          EmbedStart(ms, thr, mc)
    \/ \E embedding \in QueryEmbeddings : EmbedQuery(embedding)
    \/ \E embedding \in DocEmbeddings : EmbedDocument(embedding)
    \/ EmbedSelect
    \/ EmbedReturn

SpecEmbed == Init /\ [][NextEmbed]_vars

(***************************************************************************)
(* State functions used by the properties.  They are computed from the     *)
(* corpus and the score table, not from the selection.                     *)
(***************************************************************************)
\* The query of the current call
qt_now == [q |-> user_question, t |-> topics]

Returned == pc = "done" /\ ~raised

\* Score of the corpus chunk at position p under the current query
ScoreAt(p) == score_of(loaded_sources[p], qt_now)

\* Corpus positions whose chunk scores at or above match_threshold
Qualifying == {p \in 1..Len(loaded_sources) : ScoreAt(p) >= match_threshold}

QualifyingLennar == {p \in Qualifying : is_lennar(loaded_sources[p].file_name)}
QualifyingMeritage == {p \in Qualifying : is_meritage(loaded_sources[p].file_name)}

RECURSIVE SumLen(_)
SumLen(S) ==
    IF S = {} THEN 0
    ELSE LET p == CHOOSE e \in S : TRUE
         IN  Len(loaded_sources[p].text) + SumLen(S \ {p})

\* Total text length of the qualifying chunks
QualifyingChars == SumLen(Qualifying)

MatchedPositions == {match_pos[k] : k \in 1..Len(match_pos)}

\* matches[i] may stand before matches[j]: higher score, or equal score and
\* earlier in the corpus
InSortOrder(i, j) ==
    \/ matches[i].match_score > matches[j].match_score
    \/ /\ matches[i].match_score = matches[j].match_score
       /\ match_pos[i] < match_pos[j]

Pass1Sorted == \A i, j \in 1..pass1_len : i < j => InSortOrder(i, j)

(***************************************************************************)
(* C1  Count bound: the list returned by find_matching_documents has at    *)
(* most max_sources elements.                                              *)
(***************************************************************************)
CountBound == Returned => Len(matches) <= max_sources

(***************************************************************************)
(* C2  Minimum guarantee: whenever at least 2 chunks score at or above     *)
(* match_threshold, at least 2 results are returned, whatever the text     *)
(* lengths and max_characters are.                                         *)
(***************************************************************************)
MinimumGuarantee ==
    (Returned /\ Cardinality(Qualifying) >= 2) => Len(matches) >= 2

\* C2 as amended: the guarantee holds when max_sources is at least 2
MinimumGuaranteeWithRoom ==
    (Returned /\ Cardinality(Qualifying) >= 2 /\ max_sources >= 2)
        => Len(matches) >= 2

\* The first two results alone exceed the character budget
MinimumOverBudgetReturned ==
    /\ Returned
    /\ Cardinality(Qualifying) >= 2
    /\ max_sources >= 2
    /\ Len(matches) >= 2
    /\ Len(matches[1].text) + Len(matches[2].text) > max_characters

(***************************************************************************)
(* C3  Diversity guarantee: the question has a comparison cue word,        *)
(* max_sources >= 2, a Lennar chunk and a Meritage chunk both score at or  *)
(* above match_threshold: the result holds a Lennar and a Meritage chunk.  *)
(***************************************************************************)
DiversityGuarantee ==
    (/\ Returned
     /\ wants_of(qt_now)
     /\ max_sources >= 2
     /\ QualifyingLennar /= {}
     /\ QualifyingMeritage /= {})
        => /\ \E k \in 1..Len(matches) : is_lennar(matches[k].file_name)
           /\ \E k \in 1..Len(matches) : is_meritage(matches[k].file_name)

(***************************************************************************)
(* C4  Threshold filter: a corpus chunk is a candidate (an element of      *)
(* scored_sources) if and only if its score is >= match_threshold.         *)
(***************************************************************************)
ThresholdFilter ==
    Returned =>
        /\ {scored_pos[k] : k \in 1..Len(scored_pos)} = Qualifying
        /\ Len(scored_pos) = Cardinality(Qualifying)
        /\ Len(scored_sources) = Len(scored_pos)
        /\ \A k \in 1..Len(scored_sources) :
              /\ scored_sources[k].match_score = ScoreAt(scored_pos[k])
              /\ scored_sources[k].text = loaded_sources[scored_pos[k]].text
              /\ scored_sources[k].file_name = loaded_sources[scored_pos[k]].file_name
              /\ scored_sources[k].chunk_index = loaded_sources[scored_pos[k]].chunk_index

\* A chunk scoring exactly the threshold is a candidate, one below it is not
FilterAtThreshold ==
    /\ Returned
    /\ \E k \in 1..Len(scored_sources) : scored_sources[k].match_score = match_threshold
    /\ \E p \in 1..Len(loaded_sources) : ScoreAt(p) < match_threshold

(***************************************************************************)
(* C5  Output order: the chunks of pass 1 stand in non-increasing score    *)
(* order, equal scores in corpus order; the backfill of pass 2 follows     *)
(* them, a Lennar chunk before a Meritage chunk.                           *)
(***************************************************************************)
OutputOrder ==
    Returned =>
        /\ pass1_len <= Len(matches)
        /\ Pass1Sorted
        /\ Len(matches) <= pass1_len + 2
        /\ \A k \in (pass1_len + 1)..Len(matches) :
              \/ is_lennar(matches[k].file_name)
              \/ is_meritage(matches[k].file_name)
        /\ Len(matches) = pass1_len + 2 =>
              /\ is_lennar(matches[pass1_len + 1].file_name)
              /\ is_meritage(matches[pass1_len + 2].file_name)
        \* every backfilled chunk comes from behind the pass-1 chunks in the
        \* sorted candidate list
        /\ \A i \in 1..pass1_len, k \in (pass1_len + 1)..Len(matches) :
              matches[i].match_score >= matches[k].match_score

\* Two pass-1 chunks, then a backfilled chunk whose score ties with the last
\* pass-1 chunk
BackfillAfterPass1 ==
    /\ Returned
    /\ pass1_len >= 2
    /\ Len(matches) > pass1_len
    /\ matches[pass1_len].match_score = matches[pass1_len + 1].match_score
    /\ matches[1].match_score > matches[pass1_len].match_score
(***************************************************************************)
(* C6  No comparison requested and at most max_sources chunks score at or  *)
(* above match_threshold: exactly those chunks are returned, in descending *)
(* score order, whatever the text lengths and max_characters are.          *)
(***************************************************************************)
ReturnsAllQualifying ==
    /\ Len(matches) = Cardinality(Qualifying)
    /\ MatchedPositions = Qualifying
    /\ \A i, j \in 1..Len(matches) :
          i < j => matches[i].match_score >= matches[j].match_score

NoComparisonReturnsAll ==
    (/\ Returned
     /\ ~comparing_of(qt_now)
     /\ Cardinality(Qualifying) <= max_sources)
        => ReturnsAllQualifying

\* Pass 1 never meets the character budget: at most two candidates, or all
\* candidates together within max_characters
WithinBudget == Cardinality(Qualifying) <= 2 \/ QualifyingChars <= max_characters

\* C6 as amended: the same, provided the qualifying chunks are at most two or
\* their total text length is at most max_characters
NoComparisonReturnsAllWithinBudget ==
    (/\ Returned
     /\ ~comparing_of(qt_now)
     /\ Cardinality(Qualifying) <= max_sources
     /\ WithinBudget)
        => ReturnsAllQualifying

\* Scenario 3: three of the chunks qualify (two Lennar, one Meritage), another
\* chunk does not, max_sources leaves room and all three are returned
ThreeOfFourReturned ==
    /\ Returned
    /\ ~comparing_of(qt_now)
    /\ Cardinality(Qualifying) = 3
    /\ Cardinality(QualifyingLennar) = 2
    /\ Cardinality(QualifyingMeritage) = 1
    /\ Len(loaded_sources) > 3
    /\ max_sources > 3
    /\ WithinBudget
    /\ Len(matches) = 3

(***************************************************************************)
(* C7  Graceful absence: a comparison is requested, only Lennar chunks     *)
(* score at or above match_threshold and they are at most max_sources: all *)
(* of them are returned, no Meritage chunk is returned, no error is raised.*)
(***************************************************************************)
OnlyLennarQualifies ==
    /\ Qualifying /= {}
    /\ \A p \in Qualifying :
          /\ is_lennar(loaded_sources[p].file_name)
          /\ ~is_meritage(loaded_sources[p].file_name)

AllLennarNoMeritage ==
    /\ ~raised
    /\ Len(matches) = Cardinality(Qualifying)
    /\ MatchedPositions = Qualifying
    /\ \A k \in 1..Len(matches) : ~is_meritage(matches[k].file_name)

GracefulAbsence ==
    (/\ pc = "done"
     /\ comparing_of(qt_now)
     /\ OnlyLennarQualifies
     /\ Cardinality(Qualifying) <= max_sources)
        => AllLennarNoMeritage

\* C7 as amended: the same, provided the Lennar chunks are at most two or
\* their total text length is at most max_characters
GracefulAbsenceWithinBudget ==
    (/\ pc = "done"
     /\ comparing_of(qt_now)
     /\ OnlyLennarQualifies
     /\ Cardinality(Qualifying) <= max_sources
     /\ WithinBudget)
        => AllLennarNoMeritage

\* Pass 2 ran with room left and a Meritage chunk in the corpus below the
\* threshold; only the Lennar chunks came back
LennarOnlyReturned ==
    /\ pc = "done"
    /\ comparing_of(qt_now)
    /\ OnlyLennarQualifies
    /\ Cardinality(Qualifying) < max_sources
    /\ WithinBudget
    /\ \E p \in 1..Len(loaded_sources) :
          is_meritage(loaded_sources[p].file_name) /\ ScoreAt(p) < match_threshold
    /\ Len(matches) = Cardinality(Qualifying)
(***************************************************************************)
(* C8  Score bounds: calculate_enhanced_relevance returns a score s with   *)
(* 0.0 <= s <= 1.0 for every text, term list and file name.                *)
(***************************************************************************)
ScoreBounds == sc_pc = "scored" => (0 <= sc_score /\ sc_score <= ScoreOne)

\* The additive score of the arguments is above 3.0 and the result is 1.0
ScoreClamped ==
    /\ sc_pc = "scored"
    /\ sc_terms = << "financing", "lennar", "special" >>
    /\ RawScore(sc_text, sc_terms, sc_file) > ScoreOne
    /\ sc_score = ScoreOne

(***************************************************************************)
(* C9  Monotonicity: inserting one more occurrence of a keyword of the     *)
(* fixed vocabulary into the text never lowers the score.                  *)
(***************************************************************************)
Monotonicity == (sc_pc = "scored" /\ sc_inserts > 0) => sc_score >= sc_prev

(***************************************************************************)
(* Properties of the calls at the boundary (SpecBoundary)                  *)
(***************************************************************************)
\* A budget of the call is not a number or is negative
Misconfigured ==
    \/ non_numeric /= {}
    \/ max_sources < 0
    \/ max_characters < 0
    \/ match_threshold < 0

\* Every chunk of the corpus has a text
WellFormedCorpus ==
    \A p \in 1..Len(loaded_sources) : loaded_sources[p].text /= None

(* C11: a call whose max_sources, max_characters or match_threshold is not *)
(* a number or is negative raises before any chunk is scored or selected,  *)
(* and returns no result list.                                             *)
ConfigFailsFast ==
    (pc = "done" /\ Misconfigured)
        => (raised /\ scored_count = 0 /\ matches = << >>)

(* C12: for max_sources <= 0 the call returns an empty list and raises no  *)
(* error, for every corpus of chunks with a text and every question, the   *)
(* questions that request a comparison included (pass 2 adds nothing).     *)
NonPositiveCountReturnsEmpty ==
    (pc = "done" /\ max_sources <= 0 /\ non_numeric = {} /\ WellFormedCorpus)
        => (~raised /\ matches = << >>)

\* A comparison with a negative max_sources over a corpus in which chunks of
\* both competitors qualify has returned the empty list
NegativeCountComparisonReturned ==
    /\ Returned
    /\ max_sources < 0
    /\ non_numeric = {}
    /\ WellFormedCorpus
    /\ comparing_of(qt_now)
    /\ QualifyingLennar /= {}
    /\ QualifyingMeritage /= {}
    /\ matches = << >>

(* C13: a call with an empty loaded_sources returns the empty list and     *)
(* raises no error, for every question and every numeric budget.           *)
EmptyCorpusReturnsEmpty ==
    (pc = "done" /\ loaded_sources = << >> /\ non_numeric = {})
        => (~raised /\ matches = << >>)

\* A comparison over the empty corpus with a negative max_sources has returned
EmptyCorpusComparisonReturned ==
    /\ Returned
    /\ loaded_sources = << >>
    /\ max_sources < 0
    /\ wants_comparison(user_question)
    /\ matches = << >>

(***************************************************************************)
(* Properties of the selection, continued (Spec)                           *)
(***************************************************************************)
(* C14: when the corpus is non-empty and every chunk scores below          *)
(* match_threshold, the call raises no error and returns the top 2 chunks  *)
(* by score (all of them if there are fewer than 2), not the empty list.   *)
FallbackTopTwo ==
    (pc = "done" /\ Len(loaded_sources) >= 1 /\ Qualifying = {} /\ max_sources >= 2)
        => /\ ~raised
           /\ Len(matches) = Min(2, Len(loaded_sources))
           /\ \A k \in 1..Len(match_pos) :
                 \A p \in (1..Len(loaded_sources)) \ MatchedPositions :
                     ScoreAt(match_pos[k]) >= ScoreAt(p)

(***************************************************************************)
(* Properties of the calls at the boundary, continued (SpecBoundary)       *)
(***************************************************************************)
(* C15: a corpus chunk whose text is None is scored as the empty string    *)
(* and does not make the call raise; every chunk of the batch is scored.   *)
NoneTextScoredAsEmpty ==
    (pc = "done" /\ ~WellFormedCorpus /\ ~Misconfigured)
        => (~raised /\ scored_count = Len(loaded_sources))

(***************************************************************************)
(* Properties of the term expansion (SpecTerms)                            *)
(***************************************************************************)
\* The terms of a list in lower case
RECURSIVE LowerAll(_, _)
LowerAll(terms, i) ==
    IF i > Len(terms) THEN << >>
    ELSE << lower(terms[i]) >> \o LowerAll(terms, i + 1)

\* Position in the list raw_lower of the first term equal to term_lower
FirstSeen(raw_lower, term_lower) ==
    CHOOSE i \in 1..Len(raw_lower) :
        /\ raw_lower[i] = term_lower
        /\ \A j \in 1..(i - 1) : raw_lower[j] /= term_lower

\* For every term of the list, the position of its first occurrence in raw_lower
RECURSIVE FirstSeenAll(_, _, _)
FirstSeenAll(raw_lower, terms_lower, k) ==
    IF k > Len(terms_lower) THEN << >>
    ELSE << FirstSeen(raw_lower, terms_lower[k]) >>
         \o FirstSeenAll(raw_lower, terms_lower, k + 1)

(* C16: the term list has no two terms equal ignoring case, keeps for each *)
(* term the spelling and the position of its first occurrence in           *)
(* search_terms, starts with the raw question when the question is         *)
(* non-empty, and contains no empty term.                                  *)
TermsDeduplicated ==
    te_pc = "expanded" =>
        LET raw   == search_terms(te_question, te_topics)
            rl    == LowerAll(raw, 1)
            tl    == LowerAll(te_terms, 1)
        IN  /\ \A i, j \in 1..Len(tl) : i < j => tl[i] /= tl[j]
            /\ \A k \in 1..Len(te_terms) :
                  /\ te_terms[k] /= "" /\ te_terms[k] /= None
                  /\ \E i \in 1..Len(rl) : rl[i] = tl[k]
            /\ LET first == FirstSeenAll(rl, tl, 1)
               IN  /\ \A k \in 1..Len(te_terms) : te_terms[k] = raw[first[k]]
                   /\ \A k \in 1..(Len(te_terms) - 1) : first[k] < first[k + 1]
            /\ \A i \in 1..Len(raw) :
                  truthy(raw[i]) => \E k \in 1..Len(tl) : tl[k] = rl[i]
            /\ truthy(te_question) =>
                  (Len(te_terms) >= 1 /\ te_terms[1] = te_question)

\* A question and topics that repeat a term in other spellings have been
\* expanded: "Lennar" (the question), "lennar" (the competitor term and a topic)
DuplicateSpellingsDropped ==
    /\ te_pc = "expanded"
    /\ te_question = "Lennar"
    /\ te_topics = << "lennar", "APR" >>
    /\ te_terms = << "Lennar", "APR" >>

(***************************************************************************)
(* Properties of the calls at the boundary: the question (SpecBoundary)    *)
(***************************************************************************)
\* The score of the fixed-vocabulary and pattern passes alone
VocabularyScore(text) ==
    Min(KeywordScore(lower(text)) + PatternScore(lower(text)), ScoreOne)

(* C17: a None or empty question does not make the call raise; no entity   *)
(* is detected and no comparison is wanted, so nothing is backfilled; the  *)
(* term list holds supplied topics only; every chunk is scored, at least   *)
(* by the fixed-vocabulary and pattern passes.                             *)
NoQuestionNoRaise ==
    (pc = "done" /\ ~truthy(user_question) /\ non_numeric = {} /\ WellFormedCorpus)
        => /\ ~raised
           /\ ~comparing_of(qt_now)
           /\ Len(matches) = pass1_len
           /\ \A k \in 1..Len(terms_of(qt_now)) :
                 \E i \in 1..Len(topics) : topics[i] = terms_of(qt_now)[k]
           /\ scored_count = Len(loaded_sources)
           /\ \A k \in 1..Len(scored_sources) :
                 /\ scored_sources[k].match_score >= VocabularyScore(scored_sources[k].text)
                 /\ topics = << >> =>
                       scored_sources[k].match_score
                           = VocabularyScore(scored_sources[k].text)

\* A call with the question None and topics has returned a chunk scored above 0
NoneQuestionReturned ==
    /\ Returned
    /\ user_question = None
    /\ topics /= << >>
    /\ Len(matches) >= 1
    /\ matches[1].match_score > 0

(***************************************************************************)
(* Properties of the skill (SpecSkill)                                     *)
(***************************************************************************)
(* C18: when the corpus is non-empty and find_matching_documents returns   *)
(* the empty list, the response carries the message 'No relevant documents *)
(* found' with the title 'No Results Found' and generate_rag_response is   *)
(* not called; when the list is non-empty, generate_rag_response is called *)
(* with exactly that list.                                                 *)
EmptySelectionHandling ==
    (Returned /\ main_html /= "" /\ loaded_sources /= << >>)
        => IF matches = << >>
           THEN /\ main_html = "No relevant documents found"
                /\ title = "No Results Found"
                /\ rag_calls = << >>
           ELSE rag_calls = << matches >>

\* The skill has answered a question for which no chunk of a non-empty corpus
\* was selected
NoResultsResponded ==
    /\ Returned
    /\ Len(loaded_sources) >= 2
    /\ matches = << >>
    /\ title = "No Results Found"
    /\ rag_calls = << >>

(***************************************************************************)
(* Properties of the selection: frame and backfill trigger (Spec)          *)
(***************************************************************************)
(* C19: a call of find_matching_documents leaves loaded_sources unchanged: *)
(* same length, same order, and every row with the fields and the text it  *)
(* was loaded with; match_score and url are on the per-query copies only.  *)
FrameLoadedSources ==
    [][(pc = "idle" /\ pc' = "done") => loaded_sources' = loaded_sources]_vars

\* A call has returned scored copies, and the rows they were copied from have
\* the three fields of the loader
CopiesAnnotated ==
    /\ Returned
    /\ Len(scored_sources) >= 2
    /\ scored_sources[1].match_score > 0
    /\ scored_sources[1].url /= ""
    /\ \A p \in 1..Len(loaded_sources) :
          DOMAIN loaded_sources[p] = {"file_name", "text", "chunk_index"}

\* The lower-case question contains one of the cue words
CueWordIn(ql) ==
    \E cue \in {"competitors", "competition", "both", "compare", "versus", "vs"} :
        str_in(cue, ql)

\* The lower-case question names both competitors
BothCompetitorsIn(ql) == str_in("lennar", ql) /\ str_in("meritage", ql)

\* The selection of pass 1 is a prefix of the sorted candidates
Pass1IsPrefix ==
    Returned => SubSeq(matches, 1, pass1_len) = SubSeq(scored_sources, 1, pass1_len)

(* C20: pass 2 appends a chunk only if the question contains a cue word or *)
(* mentions both 'lennar' and 'meritage'; for every other question the     *)
(* result is exactly the selection of pass 1, a prefix of the sorted       *)
(* candidates.                                                             *)
BackfillTrigger ==
    /\ Pass1IsPrefix
    /\ (Returned /\ Len(matches) /= pass1_len)
          => LET ql == lower(user_question)
             IN  CueWordIn(ql) \/ BothCompetitorsIn(ql)

\* A question that names Lennar only has returned no Meritage chunk although a
\* Meritage chunk qualified and max_sources was not reached
SingleCompetitorNoBackfill ==
    /\ Returned
    /\ user_question = "Lennar rates"
    /\ Len(matches) < max_sources
    /\ QualifyingMeritage /= {}
    /\ Len(matches) = pass1_len
    /\ \A k \in 1..Len(matches) : ~is_meritage(matches[k].file_name)

(***************************************************************************)
(* Properties of the returned records: url (SpecBoundary)                  *)
(***************************************************************************)
\* The document id of the entity-to-document-id lookup for a file name
ExpectedDocId(file_name) ==
    IF str_in("Lennar", file_name) THEN "abb40c5f-f259-48bf-85c3-d2ed1ea956b8"
    ELSE IF str_in("Meritage", file_name) THEN "7f0292db-d935-4c90-b65b-897bb98167f9"
    ELSE "unknown"

(* C21: every returned record has the url {base}/{id}#page={chunk_index},  *)
(* where base is the base_url of the call and id the document id of the    *)
(* chunk's file name ('unknown' when no entity matches).                   *)
CitationUrl ==
    Returned =>
        \A k \in 1..Len(matches) :
            matches[k].url = base_url \o "/" \o ExpectedDocId(matches[k].file_name)
                             \o "#page=" \o ToString(matches[k].chunk_index)

(***************************************************************************)
(* Properties of the selection: backfill and budgets (Spec)                *)
(***************************************************************************)
\* Positions in scored_sources of the candidates whose file name contains company
CandidatesOf(company) ==
    {k \in 1..Len(scored_sources) : str_in(company, scored_sources[k].file_name)}

\* No match of pass 1 has a file name that contains company
UnrepresentedAfterPass1(company) ==
    \A k \in 1..pass1_len : ~str_in(company, matches[k].file_name)

\* The first candidate of company in sorted order stands among the matches
\* appended after pass 1
FirstCandidateBackfilled(company) ==
    LET first == CHOOSE k \in CandidatesOf(company) :
                     \A j \in CandidatesOf(company) : k <= j
    IN  \E j \in (pass1_len + 1)..Len(matches) : match_pos[j] = scored_pos[first]

\* Total text length of the returned records
MatchedChars == SumSeq([k \in 1..Len(matches) |-> Len(matches[k].text)])

(* C22: when pass 2 runs (cue word or both competitors in the question,    *)
(* fewer than max_sources matches after pass 1) and a competitor has no    *)
(* match of pass 1 but has a candidate, its first candidate in sorted      *)
(* order is appended, whatever the total text length becomes.              *)
BackfillIgnoresBudget ==
    (Returned /\ pass1_len < max_sources)
        => \A company \in {"Lennar", "Meritage"} :
              (/\ UnrepresentedAfterPass1(company)
               /\ CandidatesOf(company) /= {}
               /\ LET ql == lower(user_question)
                  IN  CueWordIn(ql) \/ BothCompetitorsIn(ql))
                  => FirstCandidateBackfilled(company)

\* Pass 1 has stopped at the character budget and pass 2 has appended a chunk,
\* which brought the total text length above max_characters
BackfilledOverBudget ==
    /\ Returned
    /\ pass1_len >= 2
    /\ Len(matches) > pass1_len
    /\ MatchedChars > max_characters

(* C26: every returned record, whether appended in pass 1 or by the        *)
(* backfill of pass 2, has a match_score >= match_threshold, and that      *)
(* score is the score of its corpus chunk.                                 *)
ResultsAboveThreshold ==
    Returned =>
        \A k \in 1..Len(matches) :
            /\ matches[k].match_score >= match_threshold
            /\ matches[k].match_score = ScoreAt(match_pos[k])

\* Pass 2 has appended a Lennar chunk and has left out the Meritage chunks of
\* the corpus, none of which passed the threshold
BackfillSkippedBelowThreshold ==
    /\ Returned
    /\ Len(matches) > pass1_len
    /\ Len(matches) < max_sources
    /\ is_lennar(matches[Len(matches)].file_name)
    /\ QualifyingMeritage = {}
    /\ \E p \in 1..Len(loaded_sources) : is_meritage(loaded_sources[p].file_name)

(***************************************************************************)
(* Properties of the selection: the character budget (SpecBoundary)        *)
(***************************************************************************)
\* Pass 1 had a reason to stop before the candidate that follows the matches:
\* max_sources reached, or two matches selected and the candidate over budget
StoppedAtNextCandidate ==
    \/ Len(matches) >= max_sources
    \/ /\ Len(matches) >= 2
       /\ MatchedChars + Len(scored_sources[Len(matches) + 1].text) > max_characters

(* C27: when the question triggers no backfill (no cue word, not both      *)
(* competitors), a result of more than 2 chunks has a total text length    *)
(* <= max_characters, and the result is the prefix of the sorted           *)
(* candidates that ends before the first candidate pass 1 stopped at.      *)
CharacterBudget ==
    (Returned /\ LET ql == lower(IF truthy(user_question) THEN user_question ELSE "")
                 IN  ~CueWordIn(ql) /\ ~BothCompetitorsIn(ql))
        => /\ Len(matches) > 2 => MatchedChars <= max_characters
           /\ Len(matches) <= Len(scored_sources)
           /\ matches = SubSeq(scored_sources, 1, Len(matches))
           /\ Len(matches) < Len(scored_sources) => StoppedAtNextCandidate

\* Three chunks within the budget have been returned and a fourth candidate,
\* which would have exceeded it, has been left out
ThreeWithinBudgetReturned ==
    /\ Returned
    /\ max_sources = 5
    /\ Len(matches) = 3
    /\ Len(scored_sources) = 4
    /\ MatchedChars <= max_characters
    /\ MatchedChars + Len(scored_sources[4].text) > max_characters

(***************************************************************************)
(* Properties of the skill: defaults (SpecSkill)                           *)
(***************************************************************************)
\* The skill has called find_matching_documents
SkillCalled == pc = "done" /\ main_html /= ""

(* C28: the skill passes max_sources=5, match_threshold=0.15 and           *)
(* max_characters=3000 exactly for the arguments the caller left out;      *)
(* every supplied value, an explicit 0 included, reaches                   *)
(* find_matching_documents unchanged.                                      *)
DefaultsOnlyWhenAbsent ==
    SkillCalled =>
        /\ max_sources = IF "max_sources" \in arguments.absent THEN 5 ELSE arguments.ms
        /\ match_threshold
              = IF "match_threshold" \in arguments.absent THEN 45 ELSE arguments.thr
        /\ max_characters
              = IF "max_characters" \in arguments.absent THEN 3000 ELSE arguments.mc

(***************************************************************************)
(* C23  Single-competitor exclusion in enhanced_find_matching_documents:   *)
(* when the question mentions "meritage" and not "lennar", no chunk whose  *)
(* file name contains "Lennar" is returned, and the other way round for a  *)
(* question that mentions only "lennar"; after both passes, whatever else  *)
(* the question says.                                                      *)
(***************************************************************************)
SingleCompetitorExclusion ==
    Returned =>
        /\ (mentions_meritage(user_question) /\ ~mentions_lennar(user_question))
              => \A k \in 1..Len(matches) : ~is_lennar(matches[k].file_name)
        /\ (mentions_lennar(user_question) /\ ~mentions_meritage(user_question))
              => \A k \in 1..Len(matches) : ~is_meritage(matches[k].file_name)

(***************************************************************************)
(* C24  Minimum count in enhanced_find_matching_documents: when at least   *)
(* two chunks score at or above match_threshold and max_sources >= 2, at   *)
(* least two chunks are returned, whatever the text lengths, the character *)
(* budget and the question.                                                *)
(***************************************************************************)
\* Corpus positions whose chunk scores at or above match_threshold under the
\* scorer of enhanced_matching.py
EnhancedQualifying ==
    {p \in 1..Len(loaded_sources) :
        em_score_of(loaded_sources[p], qt_now) >= match_threshold}

EnhancedMinimumCount ==
    (Returned /\ Cardinality(EnhancedQualifying) >= 2 /\ max_sources >= 2)
        => Len(matches) >= 2

(***************************************************************************)
(* C25  competitive_analysis returns the "No competitive data found"       *)
(* output with the warning "No data available" whenever none of the        *)
(* requested builder names is a recognised builder (contains "lennar",     *)
(* "meritage", "dream" or "pulte"), and then neither generate_insights nor *)
(* the dashboard construction is reached.                                  *)
(***************************************************************************)
RecognisedBuilder(builder) ==
    \/ str_in("lennar", builder)
    \/ str_in("meritage", builder)
    \/ str_in("dream", builder)
    \/ str_in("pulte", builder)

NoRecognisedBuilder ==
    LET builders == builders_of(ca_builder_names)
    IN  \A i \in 1..Len(builders) : ~RecognisedBuilder(builders[i])

NoDataForUnknownBuilders ==
    (ca_pc = "returned" /\ NoRecognisedBuilder) =>
        /\ ca_output.final_prompt = NoDataPrompt
        /\ ca_output.warnings = << "No data available" >>
        /\ ca_output.reached = {}

(***************************************************************************)
(* C29  Embedding path: a document whose embedding fails is skipped and    *)
(* the documents after it are still processed; a failure to embed the      *)
(* query leaves find_matches_with_openai_embeddings as an exception; the   *)
(* list returned has at most max_sources elements, is in non-increasing    *)
(* order of similarity, and has at least min(2, max_sources, number of     *)
(* documents at or above match_threshold) elements.                        *)
(***************************************************************************)
\* Documents whose similarity was computed and is at or above match_threshold
EmbedQualifying ==
    {i \in 1..Len(eb_outcomes) :
        ~eb_outcomes[i].failed /\ eb_outcomes[i].similarity >= eb_budget.thr}

EmbeddingErrorIsolation ==
    /\ eb_query_failed => (eb_pc = "raised" /\ eb_outcomes = << >> /\ eb_final = << >>)
    /\ eb_pc = "raised" => eb_query_failed
    /\ eb_pc = "done" =>
          /\ Len(eb_outcomes) = Len(eb_sources)
          /\ \A k \in 1..Len(eb_final) : eb_final[k] \in EmbedQualifying
          /\ \A j, k \in 1..Len(eb_final) : j < k => eb_final[j] /= eb_final[k]
          /\ Len(eb_final) <= eb_budget.ms
          /\ \A j, k \in 1..Len(eb_final) :
                j < k => eb_outcomes[eb_final[j]].similarity
                           >= eb_outcomes[eb_final[k]].similarity
          /\ Len(eb_final) >= Min(2, Min(eb_budget.ms, Cardinality(EmbedQualifying)))

\* The first document failed, the two after it were embedded and are returned,
\* the later one first
FailedDocumentSkipped ==
    /\ eb_pc = "done"
    /\ Len(eb_sources) = 3
    /\ eb_outcomes[1].failed
    /\ eb_final = << 3, 2 >>
    /\ eb_outcomes[3].similarity > eb_outcomes[2].similarity

====
